---------------------------- MODULE Spec2Model ----------------------------
(***************************************************************************)
(* Processor Table of Triton VM: padding writer (pad_trace), trace         *)
(* extender (extend) and the AIR constraints (initial, consistency,        *)
(* transition, terminal) of src/triton-vm/src/table/processor_table.rs.    *)
(*                                                                         *)
(* Field elements are integers modulo P; extension-field elements are      *)
(* triples of coefficients modulo the Shah polynomial x^3 - x + 1.         *)
(***************************************************************************)
EXTENDS Integers, Sequences, FiniteSets, TLC

VARIABLES
    pc,                   \* position inside pad_trace / extend
    processor_table,      \* the base table: a sequence of base rows
    processor_table_len,  \* pad_trace's second argument (number of real rows)
    table_before,         \* the base table as it was when pad_trace was called
    padding_template,     \* pad_trace's local padding_template
    rows_assigned,        \* padding rows already written by a fill task
    ext_table,            \* the extension table written by extend
    running,              \* extend's eleven running accumulators
    row_idx,              \* extend's loop counter
    challenges,           \* the sampled challenges
    args,                 \* arguments of the function under evaluation
    result,               \* its result, once evaluated
    curr,                 \* AIR walk: the current row (base and extension part)
    walk,                 \* AIR walk: bookkeeping about the rows seen so far
    proof_stream,         \* the ProofStream in use: items, items_index, sponge_state
    proof,                \* the Proof most recently made from a proof stream
    transcript            \* bookkeeping about the calls made on the proof stream

vars == << pc, processor_table, processor_table_len, table_before,
           padding_template, rows_assigned, ext_table, running, row_idx,
           challenges, args, result, curr, walk, proof_stream, proof,
           transcript >>

traceVars == << pc, processor_table, processor_table_len, table_before,
                padding_template, rows_assigned, ext_table, running, row_idx,
                challenges >>
fnVars == << args, result >>
airVars == << curr, walk >>
streamVars == << proof_stream, proof, transcript >>

-----------------------------------------------------------------------------
(* Base field                                                              *)

\* Characteristic of the base field (scaled down from 2^64 - 2^32 + 1).
P == 257

FAdd(a, b) == (a + b) % P
FSub(a, b) == (a - b + P) % P
FMul(a, b) == (a * b) % P

\* BFieldElement::new reduces its argument modulo the characteristic.
BNew(n) == n % P

RECURSIVE FPow(_, _)
FPow(a, n) ==
    IF n = 0 THEN 1
    ELSE LET h == FPow(a, n \div 2)
         IN IF n % 2 = 0 THEN FMul(h, h) ELSE FMul(FMul(h, h), a)

\* Multiplicative inverse by Fermat's little theorem, a # 0.
FInverse(a) == FPow(a, P - 2)

-----------------------------------------------------------------------------
(* Extension field: F[x] / (x^3 - x + 1)                                   *)

XZero == << 0, 0, 0 >>
XOne == << 1, 0, 0 >>

\* Lift of a base field element.
XLift(b) == << b % P, 0, 0 >>

XAdd(a, b) == << FAdd(a[1], b[1]), FAdd(a[2], b[2]), FAdd(a[3], b[3]) >>
XSub(a, b) == << FSub(a[1], b[1]), FSub(a[2], b[2]), FSub(a[3], b[3]) >>

\* Product of an extension field element and a base field element.
XScale(a, b) == << FMul(a[1], b), FMul(a[2], b), FMul(a[3], b) >>

\* Product modulo x^3 - x + 1 (the coefficient formulas of instruction xxmul).
XMul(a, b) ==
    << (a[1] * b[1] + (P - 1) * ((a[3] * b[2]) % P) + (P - 1) * ((a[2] * b[3]) % P)) % P,
       (a[2] * b[1] + a[1] * b[2] + (P - 1) * ((a[3] * b[3]) % P)
            + a[3] * b[2] + a[2] * b[3]) % P,
       (a[3] * b[1] + a[2] * b[2] + a[1] * b[3] + a[3] * b[3]) % P >>

\* Inverse of a non-zero element: first column of the inverse of the
\* multiplication matrix of a, by cofactors.
XInverse(a) ==
    LET s == FAdd(a[1], a[3])
        c00 == FSub(FMul(s, s), FMul(a[2], FSub(a[2], a[3])))
        c01 == FSub(FMul(a[3], FSub(a[2], a[3])), FMul(a[2], s))
        c02 == FSub(FMul(a[2], a[2]), FMul(a[3], s))
        det == FSub(FSub(FMul(a[1], c00), FMul(a[3], c01)), FMul(a[2], c02))
        di == FInverse(det)
    IN << FMul(c00, di), FMul(c01, di), FMul(c02, di) >>

\* Default initials of the cross-table arguments.
EvalArg_default_initial == XOne
PermArg_default_initial == XOne
LookupArg_default_initial == XZero

-----------------------------------------------------------------------------
(* Column schema                                                           *)

ProcessorBaseTableColumn ==
    { "CLK", "IsPadding", "IP", "CI", "NIA", "JSP", "JSO", "JSD",
      "OpStackPointer", "RAMP", "RAMV", "PreviousInstruction",
      "ClockJumpDifferenceLookupMultiplicity",
      "ST0", "ST1", "ST2", "ST3", "ST4", "ST5", "ST6", "ST7",
      "ST8", "ST9", "ST10", "ST11", "ST12", "ST13", "ST14", "ST15",
      "HV0", "HV1", "HV2", "HV3", "HV4", "HV5", "HV6",
      "IB0", "IB1", "IB2", "IB3", "IB4", "IB5", "IB6", "IB7" }

ProcessorExtTableColumn ==
    { "InputTableEvalArg", "OutputTableEvalArg",
      "InstructionLookupClientLogDerivative", "OpStackTablePermArg",
      "RamTablePermArg", "JumpStackTablePermArg", "HashInputEvalArg",
      "HashDigestEvalArg", "SpongeEvalArg", "U32LookupClientLogDerivative",
      "ClockJumpDifferenceLookupServerLogDerivative" }

\* op_stack_column_by_index; an index outside 0..15 is fatal.
op_stack_column_by_index(index) ==
    CASE index = 0 -> "ST0" [] index = 1 -> "ST1" [] index = 2 -> "ST2"
      [] index = 3 -> "ST3" [] index = 4 -> "ST4" [] index = 5 -> "ST5"
      [] index = 6 -> "ST6" [] index = 7 -> "ST7" [] index = 8 -> "ST8"
      [] index = 9 -> "ST9" [] index = 10 -> "ST10" [] index = 11 -> "ST11"
      [] index = 12 -> "ST12" [] index = 13 -> "ST13" [] index = 14 -> "ST14"
      [] index = 15 -> "ST15"

IBColumn(i) ==
    CASE i = 0 -> "IB0" [] i = 1 -> "IB1" [] i = 2 -> "IB2" [] i = 3 -> "IB3"
      [] i = 4 -> "IB4" [] i = 5 -> "IB5" [] i = 6 -> "IB6" [] i = 7 -> "IB7"

ZeroBaseRow == [c \in ProcessorBaseTableColumn |-> 0]

-----------------------------------------------------------------------------
(* Instruction set                                                         *)

ALL_INSTRUCTIONS ==
    << "Pop", "Push", "Divine", "Dup", "Swap", "Nop", "Skiz", "Call",
       "Return", "Recurse", "Assert", "Halt", "ReadMem", "WriteMem", "Hash",
       "DivineSibling", "AssertVector", "SpongeInit", "SpongeAbsorb",
       "SpongeSqueeze", "Add", "Mul", "Invert", "Eq", "Split", "Lt", "And",
       "Xor", "Log2Floor", "Pow", "DivMod", "PopCount", "XxAdd", "XxMul",
       "XInvert", "XbMul", "ReadIo", "WriteIo" >>

Instruction == { ALL_INSTRUCTIONS[i] : i \in DOMAIN ALL_INSTRUCTIONS }

\* Instruction::opcode.  Bit 0: the instruction takes an argument; bit 1: it
\* shrinks the op stack; bit 2: it is a u32 instruction.
opcode(instruction) ==
    CASE instruction = "Pop" -> 2
      [] instruction = "Push" -> 1
      [] instruction = "Divine" -> 8
      [] instruction = "Dup" -> 9
      [] instruction = "Swap" -> 17
      [] instruction = "Nop" -> 16
      [] instruction = "Skiz" -> 10
      [] instruction = "Call" -> 25
      [] instruction = "Return" -> 24
      [] instruction = "Recurse" -> 32
      [] instruction = "Assert" -> 18
      [] instruction = "Halt" -> 0
      [] instruction = "ReadMem" -> 40
      [] instruction = "WriteMem" -> 26
      [] instruction = "Hash" -> 48
      [] instruction = "DivineSibling" -> 56
      [] instruction = "AssertVector" -> 64
      [] instruction = "SpongeInit" -> 72
      [] instruction = "SpongeAbsorb" -> 80
      [] instruction = "SpongeSqueeze" -> 88
      [] instruction = "Add" -> 34
      [] instruction = "Mul" -> 42
      [] instruction = "Invert" -> 96
      [] instruction = "Eq" -> 50
      [] instruction = "Split" -> 4
      [] instruction = "Lt" -> 6
      [] instruction = "And" -> 14
      [] instruction = "Xor" -> 22
      [] instruction = "Log2Floor" -> 12
      [] instruction = "Pow" -> 30
      [] instruction = "DivMod" -> 20
      [] instruction = "PopCount" -> 28
      [] instruction = "XxAdd" -> 104
      [] instruction = "XxMul" -> 112
      [] instruction = "XInvert" -> 120
      [] instruction = "XbMul" -> 58
      [] instruction = "ReadIo" -> 128
      [] instruction = "WriteIo" -> 66

opcode_b(instruction) == BNew(opcode(instruction))

\* Bit number i of the integer n.
BitOf(n, i) == (n \div (2 ^ i)) % 2

\* Instruction::ib: instruction bit number i of the opcode.
ib(instruction, i) == BitOf(opcode(instruction), i)

\* Instruction::op_stack_size_influence
op_stack_size_influence(instruction) ==
    CASE instruction \in { "Push", "Divine", "Dup", "ReadMem", "Split", "ReadIo" } -> 1
      [] instruction \in { "Pop", "Skiz", "Assert", "WriteMem", "Add", "Mul", "Eq",
                           "Lt", "And", "Xor", "Pow", "XbMul", "WriteIo" } -> -1
      [] OTHER -> 0

grows_op_stack(instruction) == op_stack_size_influence(instruction) > 0

\* TryFrom<BFieldElement> for Instruction: the instructions with that opcode
\* (empty when decoding fails).
InstructionsWithOpcode(value) == { i \in Instruction : opcode_b(i) = value }

\* A row with CI and IB0..IB7 set to the given bit pattern.
WithInstructionBits(row, pattern) ==
    [row EXCEPT
        !["CI"] = pattern % P,
        !["IB0"] = BitOf(pattern, 0), !["IB1"] = BitOf(pattern, 1),
        !["IB2"] = BitOf(pattern, 2), !["IB3"] = BitOf(pattern, 3),
        !["IB4"] = BitOf(pattern, 4), !["IB5"] = BitOf(pattern, 5),
        !["IB6"] = BitOf(pattern, 6), !["IB7"] = BitOf(pattern, 7)]

-----------------------------------------------------------------------------
(* Instruction deselectors                                                 *)

RECURSIVE FProduct(_)
\* fold(one, mul) over the factors.
FProduct(factors) ==
    IF factors = << >> THEN 1 ELSE FMul(Head(factors), FProduct(Tail(factors)))

\* A deselector that forgets to negate the selector bits.
instruction_deselector_without_negation(instruction, instruction_bits) ==
    FProduct([i \in 1 .. 8 |-> FSub(instruction_bits[i], ib(instruction, i - 1))])

\* A deselector that leaves out the most significant instruction bit.
instruction_deselector_over_seven_bits(instruction, instruction_bits) ==
    FProduct([i \in 1 .. 7 |->
                FSub(instruction_bits[i], FSub(1, ib(instruction, i - 1)))])

\* instruction_deselector_common_functionality: the product over the bits of
\* (instruction_bit_polynomial - (1 - selector_bit)).
instruction_deselector_common_functionality(instruction, instruction_bits) ==
    LET deselector_polynomials == [i \in 1 .. 8 |-> FSub(1, ib(instruction, i - 1))]
    IN FProduct([i \in 1 .. 8 |-> FSub(instruction_bits[i], deselector_polynomials[i])])

InstructionBitsOf(row) == [i \in 1 .. 8 |-> row[IBColumn(i - 1)]]

instruction_deselector_current_row(instruction, curr_base, next_base) ==
    instruction_deselector_common_functionality(instruction, InstructionBitsOf(curr_base))

instruction_deselector_next_row(instruction, curr_base, next_base) ==
    instruction_deselector_common_functionality(instruction, InstructionBitsOf(next_base))

instruction_deselector_single_row(instruction, base_row) ==
    instruction_deselector_common_functionality(instruction, InstructionBitsOf(base_row))

-----------------------------------------------------------------------------
(* Idle values of the state a specification does not use                    *)

\* Option::None of a row.
NoRow == [none |-> 0]

\* The state of pad_trace and extend while neither runs.
IdleTrace ==
    /\ pc = "idle"
    /\ processor_table = << >>
    /\ processor_table_len = 0
    /\ table_before = << >>
    /\ padding_template = NoRow
    /\ rows_assigned = {}
    /\ ext_table = << >>
    /\ running = << >>
    /\ row_idx = 0
    /\ challenges = << >>

\* The state of the proof stream while none is in use.
IdleStream ==
    /\ proof_stream = << >>
    /\ proof = << >>
    /\ transcript = << >>

-----------------------------------------------------------------------------
(* Evaluation of the current-row deselector of one instruction on the      *)
(* instruction bits of a row                                               *)

InitDeselector ==
    /\ IdleStream
    /\ args \in [op : { "deselector" }, instruction : Instruction, pattern : 0 .. 255]
    /\ result = [done |-> FALSE, value |-> 0]
    /\ IdleTrace
    /\ curr = << >>
    /\ walk = << >>

EvaluateDeselector ==
    /\ args.op = "deselector"
    /\ ~result.done
    /\ result' = [done |-> TRUE,
                  value |-> instruction_deselector_current_row(
                                args.instruction,
                                WithInstructionBits(ZeroBaseRow, args.pattern),
                                ZeroBaseRow)]
    /\ UNCHANGED << args, traceVars, airVars, streamVars >>

NextDeselector == EvaluateDeselector

SpecDeselector == InitDeselector /\ [][NextDeselector]_vars

\* C1: the deselector of instruction J, evaluated on a row whose IB0..IB7
\* are the instruction bits of instruction K, is non-zero when K = J and
\* zero when K # J.
C1_DeselectorSelectsItsInstruction ==
    result.done /\ args.op = "deselector" =>
        \A K \in Instruction :
            args.pattern = opcode(K) =>
                /\ (K = args.instruction => result.value # 0)
                /\ (K # args.instruction => result.value = 0)

\* Both cases of C1 have been evaluated: J on its own bits (Swap), and J on
\* the bits of another instruction (Swap's deselector on Dup's bits).
C1_Witness ==
    /\ result.done
    /\ args.op = "deselector"
    /\ args.instruction = "Swap"
    /\ args.pattern = opcode("Swap")
    /\ result.value # 0

-----------------------------------------------------------------------------
(* Base tables handed to pad_trace                                         *)

\* Largest number of rows of a table.
MaxRows == 3

\* Instructions the real rows of a table execute.
TraceInstructions == { "Push", "WriteIo", "Halt" }

\* The digest of the program, which the first row holds in ST11..ST15.
ProgramDigest == << 3, 1, 4, 1, 5 >>

\* Lookup multiplicities the real rows of a table start with.
TraceMultiplicities == { 0, 1 }

\* Row number r (from 0) of a table.
Row(table, r) == table[r + 1]

\* A row of the real trace: clock r, not padding, executing `instruction`.
RealRow(r, instruction, previous_opcode, multiplicity) ==
    [WithInstructionBits(ZeroBaseRow, opcode(instruction)) EXCEPT
        !["CLK"] = BNew(r),
        !["IP"] = BNew(r),
        !["OpStackPointer"] = 16,
        !["ST0"] = IF r = 0 THEN 0 ELSE BNew(r + 2),
        !["ST11"] = ProgramDigest[1], !["ST12"] = ProgramDigest[2],
        !["ST13"] = ProgramDigest[3], !["ST14"] = ProgramDigest[4],
        !["ST15"] = ProgramDigest[5],
        !["PreviousInstruction"] = previous_opcode,
        !["ClockJumpDifferenceLookupMultiplicity"] = multiplicity]

\* What the rows behind the real trace hold before padding.
StaleRow(kind) ==
    IF kind = "zero" THEN ZeroBaseRow ELSE [c \in ProcessorBaseTableColumn |-> 7]

MasterTable(n_rows, real, program, multiplicities, kind) ==
    [i \in 1 .. n_rows |->
        IF i <= real
        THEN RealRow(i - 1, program[i],
                     IF i = 1 THEN 0 ELSE opcode_b(program[i - 1]),
                     multiplicities[i])
        ELSE StaleRow(kind)]

-----------------------------------------------------------------------------
(* pad_trace                                                               *)

PaddingRows == processor_table_len .. (Len(processor_table) - 1)

\* A pad_trace that clears the rows behind the real trace before it checks
\* processor_table_len.
PadStartClearingFirst ==
    /\ pc = "pad_trace"
    /\ processor_table' =
            [i \in 1 .. Len(processor_table) |->
                IF i - 1 >= processor_table_len THEN ZeroBaseRow ELSE processor_table[i]]
    /\ IF processor_table_len = 0 \/ processor_table_len - 1 >= Len(processor_table)
       THEN /\ pc' = "panic"
            /\ UNCHANGED padding_template
       ELSE /\ padding_template' =
                [Row(processor_table, processor_table_len - 1) EXCEPT
                    !["IsPadding"] = 1,
                    !["ClockJumpDifferenceLookupMultiplicity"] = 0]
            /\ pc' = "fill"
    /\ UNCHANGED << processor_table_len, table_before, rows_assigned,
                    ext_table, running, row_idx, challenges, fnVars, airVars, streamVars >>

\* A pad_trace that takes the first row, not the last real row, as template.
PadStartFromFirstRow ==
    /\ pc = "pad_trace"
    /\ IF processor_table_len = 0 \/ processor_table_len - 1 >= Len(processor_table)
       THEN /\ pc' = "panic"
            /\ UNCHANGED padding_template
       ELSE /\ padding_template' =
                [Row(processor_table, 0) EXCEPT
                    !["IsPadding"] = 1,
                    !["ClockJumpDifferenceLookupMultiplicity"] = 0]
            /\ pc' = "fill"
    /\ UNCHANGED << processor_table, processor_table_len, table_before, rows_assigned,
                    ext_table, running, row_idx, challenges, fnVars, airVars, streamVars >>

\* A pad_trace whose template keeps the lookup multiplicity of the last
\* real row.
PadStartKeepingTheMultiplicity ==
    /\ pc = "pad_trace"
    /\ IF processor_table_len = 0 \/ processor_table_len - 1 >= Len(processor_table)
       THEN /\ pc' = "panic"
            /\ UNCHANGED padding_template
       ELSE /\ padding_template' =
                [Row(processor_table, processor_table_len - 1) EXCEPT !["IsPadding"] = 1]
            /\ pc' = "fill"
    /\ UNCHANGED << processor_table, processor_table_len, table_before, rows_assigned,
                    ext_table, running, row_idx, challenges, fnVars, airVars, streamVars >>

\* The assertion on processor_table_len and the construction of the
\* padding template from the last real row.
PadStart ==
    /\ pc = "pad_trace"
    /\ IF processor_table_len = 0 \/ processor_table_len - 1 >= Len(processor_table)
       THEN /\ pc' = "panic"
            /\ UNCHANGED padding_template
       ELSE /\ padding_template' =
                [Row(processor_table, processor_table_len - 1) EXCEPT
                    !["IsPadding"] = 1,
                    !["ClockJumpDifferenceLookupMultiplicity"] = 0]
            /\ pc' = "fill"
    /\ UNCHANGED << processor_table, processor_table_len, table_before, rows_assigned,
                    ext_table, running, row_idx, challenges, fnVars, airVars, streamVars >>

\* A fill whose slice starts one row early, at the last real row.
FillRowFromTheLastRealRow(r) ==
    /\ pc = "fill"
    /\ r \in PaddingRows \ rows_assigned
    /\ processor_table' = [processor_table EXCEPT ![r] = padding_template,
                                                  ![r + 1] = padding_template]
    /\ rows_assigned' = rows_assigned \cup { r }
    /\ UNCHANGED << pc, processor_table_len, table_before, padding_template,
                    ext_table, running, row_idx, challenges, fnVars, airVars, streamVars >>

\* One task of the parallel iterator: row r := padding_template.
FillRow(r) ==
    /\ pc = "fill"
    /\ r \in PaddingRows \ rows_assigned
    /\ processor_table' = [processor_table EXCEPT ![r + 1] = padding_template]
    /\ rows_assigned' = rows_assigned \cup { r }
    /\ UNCHANGED << pc, processor_table_len, table_before, padding_template,
                    ext_table, running, row_idx, challenges, fnVars, airVars, streamVars >>

\* A clock ramp that starts at 0 in the first padding row.
PadClkFromZero ==
    /\ pc = "fill"
    /\ rows_assigned = PaddingRows
    /\ processor_table' =
            [i \in 1 .. Len(processor_table) |->
                IF i - 1 >= processor_table_len
                THEN [processor_table[i] EXCEPT !["CLK"] = BNew(i - 1 - processor_table_len)]
                ELSE processor_table[i]]
    /\ pc' = "multiplicity"
    /\ UNCHANGED << processor_table_len, table_before, padding_template, rows_assigned,
                    ext_table, running, row_idx, challenges, fnVars, airVars, streamVars >>

\* A clock ramp that does not wait for the fill tasks: rows not yet filled
\* are never filled.
PadClkBeforeTheFillHasJoined ==
    /\ pc = "fill"
    /\ processor_table' =
            [i \in 1 .. Len(processor_table) |->
                IF i - 1 >= processor_table_len
                THEN [processor_table[i] EXCEPT !["CLK"] = BNew(i - 1)]
                ELSE processor_table[i]]
    /\ pc' = "multiplicity"
    /\ UNCHANGED << processor_table_len, table_before, padding_template, rows_assigned,
                    ext_table, running, row_idx, challenges, fnVars, airVars, streamVars >>

\* After the parallel fill has joined: the clock ramp over the padding rows.
PadClk ==
    /\ pc = "fill"
    /\ rows_assigned = PaddingRows
    /\ processor_table' =
            [i \in 1 .. Len(processor_table) |->
                IF i - 1 >= processor_table_len
                THEN [processor_table[i] EXCEPT !["CLK"] = BNew(i - 1)]
                ELSE processor_table[i]]
    /\ pc' = "multiplicity"
    /\ UNCHANGED << processor_table_len, table_before, padding_template, rows_assigned,
                    ext_table, running, row_idx, challenges, fnVars, airVars, streamVars >>

\* An increment of one, not two, per padding row.
PadMultiplicityOnePerRow ==
    /\ pc = "multiplicity"
    /\ IF Len(processor_table) < 2
       THEN /\ pc' = "panic"
            /\ UNCHANGED processor_table
       ELSE LET num_pad_rows == BNew(Len(processor_table) - processor_table_len)
            IN /\ processor_table' =
                    [processor_table EXCEPT
                        ![2]["ClockJumpDifferenceLookupMultiplicity"] = FAdd(@, num_pad_rows)]
               /\ pc' = "padded"
    /\ UNCHANGED << processor_table_len, table_before, padding_template, rows_assigned,
                    ext_table, running, row_idx, challenges, fnVars, airVars, streamVars >>

\* The lookup multiplicity of clock value 1 is increased by two per padding
\* row; indexing row 1 of a one-row table is fatal.
PadMultiplicity ==
    /\ pc = "multiplicity"
    /\ IF Len(processor_table) < 2
       THEN /\ pc' = "panic"
            /\ UNCHANGED processor_table
       ELSE LET num_padding_rows == 2 * (Len(processor_table) - processor_table_len)
                num_pad_rows == BNew(num_padding_rows)
            IN /\ processor_table' =
                    [processor_table EXCEPT
                        ![2]["ClockJumpDifferenceLookupMultiplicity"] = FAdd(@, num_pad_rows)]
               /\ pc' = "padded"
    /\ UNCHANGED << processor_table_len, table_before, padding_template, rows_assigned,
                    ext_table, running, row_idx, challenges, fnVars, airVars, streamVars >>

-----------------------------------------------------------------------------
(* Challenges                                                              *)

ChallengeIdSeq ==
    << "StandardInputIndeterminate", "StandardOutputIndeterminate",
       "InstructionLookupIndeterminate", "ProgramAddressWeight",
       "ProgramInstructionWeight", "ProgramNextInstructionWeight",
       "OpStackIndeterminate", "OpStackClkWeight", "OpStackIb1Weight",
       "OpStackPointerWeight", "OpStackFirstUnderflowElementWeight",
       "RamIndeterminate", "RamClkWeight", "RamRampWeight", "RamRamvWeight",
       "RamPreviousInstructionWeight", "JumpStackIndeterminate",
       "JumpStackClkWeight", "JumpStackCiWeight", "JumpStackJspWeight",
       "JumpStackJsoWeight", "JumpStackJsdWeight", "HashInputIndeterminate",
       "HashDigestIndeterminate", "SpongeIndeterminate", "HashCIWeight",
       "HashStateWeight0", "HashStateWeight1", "HashStateWeight2",
       "HashStateWeight3", "HashStateWeight4", "HashStateWeight5",
       "HashStateWeight6", "HashStateWeight7", "HashStateWeight8",
       "HashStateWeight9", "U32Indeterminate", "U32LhsWeight", "U32RhsWeight",
       "U32CiWeight", "U32ResultWeight",
       "ClockJumpDifferenceLookupIndeterminate",
       "CompressProgramDigestIndeterminate", "CompressedProgramDigest" >>

\* Seeds of the challenge sampler.
ChallengeSeeds == { 1, 2 }

\* A fixed pseudo-random assignment of extension field elements to the
\* challenge identifiers, one per seed.
SampleChallenges(seed) ==
    [id \in { ChallengeIdSeq[i] : i \in DOMAIN ChallengeIdSeq } |->
        LET k == CHOOSE i \in DOMAIN ChallengeIdSeq : ChallengeIdSeq[i] = id
        IN << (3 + 29 * k * seed + 5 * k * k) % P,
              (11 + 71 * k + 13 * seed * k * k) % P,
              (7 + 43 * k * k + 101 * seed * k) % P >>]

\* The challenges of a proof: sampled, except for the compressed program
\* digest, which is derived from the digest.
DerivedChallenges(seed, digest) ==
    LET ch == SampleChallenges(seed)
        fold(acc, digest_element) ==
            XAdd(XMul(acc, ch["CompressProgramDigestIndeterminate"]), XLift(digest_element))
    IN [ch EXCEPT !["CompressedProgramDigest"] =
            fold(fold(fold(fold(fold(EvalArg_default_initial, digest[1]), digest[2]),
                 digest[3]), digest[4]), digest[5])]

HashStateWeight(i) ==
    CASE i = 0 -> "HashStateWeight0" [] i = 1 -> "HashStateWeight1"
      [] i = 2 -> "HashStateWeight2" [] i = 3 -> "HashStateWeight3"
      [] i = 4 -> "HashStateWeight4" [] i = 5 -> "HashStateWeight5"
      [] i = 6 -> "HashStateWeight6" [] i = 7 -> "HashStateWeight7"
      [] i = 8 -> "HashStateWeight8" [] i = 9 -> "HashStateWeight9"

RECURSIVE XSum(_)
\* Sum of a sequence of extension field elements.
XSum(terms) ==
    IF terms = << >> THEN XZero ELSE XAdd(Head(terms), XSum(Tail(terms)))

RECURSIVE XProduct(_)
\* Product of a sequence of extension field elements.
XProduct(factors) ==
    IF factors = << >> THEN XOne ELSE XMul(Head(factors), XProduct(Tail(factors)))

-----------------------------------------------------------------------------
(* factor_for_op_stack_table_running_product                               *)

\* The loop of factor_for_op_stack_table_running_product indexes a stack
\* element that does not exist: 15 - op_stack_pointer_offset underflows, or
\* op_stack_column_by_index is called with an index it does not implement.
FactorPanics(maybe_previous_row, current_row) ==
    /\ current_row["IsPadding"] # 1
    /\ maybe_previous_row # NoRow
    /\ \E previous_instruction \in InstructionsWithOpcode(maybe_previous_row["CI"]) :
        LET influence == op_stack_size_influence(previous_instruction)
            op_stack_delta == IF influence < 0 THEN 0 - influence ELSE influence
        IN \E op_stack_pointer_offset \in 0 .. op_stack_delta - 1 :
            15 - op_stack_pointer_offset \notin 0 .. 15

\* The factor with the stack pointer and the underflow element read from the
\* current row, whichever way the stack has moved.
factor_read_from_the_current_row(maybe_previous_row, current_row, ch) ==
    IF \/ current_row["IsPadding"] = 1
       \/ maybe_previous_row = NoRow
       \/ \A i \in InstructionsWithOpcode(maybe_previous_row["CI"]) :
            op_stack_size_influence(i) = 0
    THEN XOne
    ELSE XSub(ch["OpStackIndeterminate"],
              XSum(<< XScale(ch["OpStackClkWeight"], maybe_previous_row["CLK"]),
                      XScale(ch["OpStackIb1Weight"], maybe_previous_row["IB1"]),
                      XScale(ch["OpStackPointerWeight"], current_row["OpStackPointer"]),
                      XScale(ch["OpStackFirstUnderflowElementWeight"],
                             current_row["ST15"]) >>))

\* The factor of a row that follows an instruction shrinking the op stack
\* by one element, returned for every pair of rows.
factor_of_one_removed_element(maybe_previous_row, current_row, ch) ==
    LET previous_row == IF maybe_previous_row = NoRow THEN current_row
                        ELSE maybe_previous_row
    IN XSub(ch["OpStackIndeterminate"],
            XSum(<< XScale(ch["OpStackClkWeight"], previous_row["CLK"]),
                    XScale(ch["OpStackIb1Weight"], previous_row["IB1"]),
                    XScale(ch["OpStackPointerWeight"], current_row["OpStackPointer"]),
                    XScale(ch["OpStackFirstUnderflowElementWeight"],
                           current_row["ST15"]) >>))

factor_for_op_stack_table_running_product(maybe_previous_row, current_row, ch) ==
    LET default_factor == XOne
        is_padding_row == current_row["IsPadding"] = 1
    IN IF is_padding_row THEN default_factor
       ELSE IF maybe_previous_row = NoRow THEN default_factor
       ELSE LET previous_row == maybe_previous_row
                previous_opcode == previous_row["CI"]
                decoded == InstructionsWithOpcode(previous_opcode)
            IN IF decoded = {} THEN default_factor
               ELSE LET previous_instruction == CHOOSE i \in decoded : TRUE
                        row_with_shorter_stack ==
                            IF grows_op_stack(previous_instruction)
                            THEN previous_row ELSE current_row
                        influence == op_stack_size_influence(previous_instruction)
                        op_stack_delta == IF influence < 0 THEN 0 - influence ELSE influence
                        factor_at(op_stack_pointer_offset) ==
                            LET max_stack_element_index == 15
                                stack_element_index ==
                                    max_stack_element_index - op_stack_pointer_offset
                                stack_element_column ==
                                    op_stack_column_by_index(stack_element_index)
                                underflow_element ==
                                    row_with_shorter_stack[stack_element_column]
                                op_stack_pointer == row_with_shorter_stack["OpStackPointer"]
                                offset == BNew(op_stack_pointer_offset)
                                offset_op_stack_pointer == FAdd(op_stack_pointer, offset)
                                clk == previous_row["CLK"]
                                ib1_shrink_stack == previous_row["IB1"]
                                compressed_row ==
                                    XSum(<< XScale(ch["OpStackClkWeight"], clk),
                                            XScale(ch["OpStackIb1Weight"], ib1_shrink_stack),
                                            XScale(ch["OpStackPointerWeight"],
                                                   offset_op_stack_pointer),
                                            XScale(ch["OpStackFirstUnderflowElementWeight"],
                                                   underflow_element) >>)
                            IN XSub(ch["OpStackIndeterminate"], compressed_row)
                    IN XProduct([k \in 1 .. op_stack_delta |-> factor_at(k - 1)])

-----------------------------------------------------------------------------
(* extend                                                                  *)

\* The accumulators as they are declared in front of the loop.
InitialAccumulators ==
    [input_table_running_evaluation |-> EvalArg_default_initial,
     output_table_running_evaluation |-> EvalArg_default_initial,
     instruction_lookup_log_derivative |-> LookupArg_default_initial,
     op_stack_table_running_product |-> PermArg_default_initial,
     ram_table_running_product |-> PermArg_default_initial,
     jump_stack_running_product |-> PermArg_default_initial,
     hash_input_running_evaluation |-> EvalArg_default_initial,
     hash_digest_running_evaluation |-> EvalArg_default_initial,
     sponge_running_evaluation |-> EvalArg_default_initial,
     u32_table_running_sum_log_derivative |-> LookupArg_default_initial,
     clock_jump_diff_lookup_op_stack_log_derivative |-> LookupArg_default_initial]

\* A U32 section that looks up the range check of div_mod only.
U32CompressedRowsWithoutLtCheck(previous_row, current_row, ch) ==
    IF previous_row = NoRow THEN << >>
    ELSE IF previous_row["CI"] \in { opcode_b("Lt"), opcode_b("And"), opcode_b("Pow") }
    THEN << XSum(<< XScale(ch["U32LhsWeight"], previous_row["ST0"]),
                    XScale(ch["U32RhsWeight"], previous_row["ST1"]),
                    XScale(ch["U32CiWeight"], previous_row["CI"]),
                    XScale(ch["U32ResultWeight"], current_row["ST0"]) >>) >>
    ELSE IF previous_row["CI"] \in { opcode_b("Log2Floor"), opcode_b("PopCount") }
    THEN << XSum(<< XScale(ch["U32LhsWeight"], previous_row["ST0"]),
                    XScale(ch["U32CiWeight"], previous_row["CI"]),
                    XScale(ch["U32ResultWeight"], current_row["ST0"]) >>) >>
    ELSE IF previous_row["CI"] = opcode_b("Xor")
    THEN << XSum(<< XScale(ch["U32LhsWeight"], previous_row["ST0"]),
                    XScale(ch["U32RhsWeight"], previous_row["ST1"]),
                    XScale(ch["U32CiWeight"], opcode_b("And")),
                    XScale(ch["U32ResultWeight"],
                           FMul(FSub(FAdd(previous_row["ST0"], previous_row["ST1"]),
                                     current_row["ST0"]), FInverse(2))) >>) >>
    ELSE IF previous_row["CI"] = opcode_b("Split")
    THEN << XSum(<< XScale(ch["U32LhsWeight"], current_row["ST0"]),
                    XScale(ch["U32RhsWeight"], current_row["ST1"]),
                    XScale(ch["U32CiWeight"], previous_row["CI"]) >>) >>
    ELSE IF previous_row["CI"] = opcode_b("DivMod")
    THEN << XSum(<< XScale(ch["U32LhsWeight"], previous_row["ST0"]),
                    XScale(ch["U32RhsWeight"], current_row["ST1"]),
                    XScale(ch["U32CiWeight"], opcode_b("Split")) >>) >>
    ELSE << >>

\* The elements the U32 section of one loop iteration inverts and adds to
\* the running sum, in order.
U32CompressedRows(previous_row, current_row, ch) ==
    IF previous_row = NoRow THEN << >>
    ELSE
    LET previously_current_instruction == previous_row["CI"]
        lhs(v) == XScale(ch["U32LhsWeight"], v)
        rhs(v) == XScale(ch["U32RhsWeight"], v)
        ci(v) == XScale(ch["U32CiWeight"], v)
        res(v) == XScale(ch["U32ResultWeight"], v)
        split == IF previously_current_instruction = opcode_b("Split")
                 THEN << XSum(<< lhs(current_row["ST0"]), rhs(current_row["ST1"]),
                                 ci(previous_row["CI"]) >>) >>
                 ELSE << >>
        binop == IF \/ previously_current_instruction = opcode_b("Lt")
                    \/ previously_current_instruction = opcode_b("And")
                    \/ previously_current_instruction = opcode_b("Pow")
                 THEN << XSum(<< lhs(previous_row["ST0"]), rhs(previous_row["ST1"]),
                                 ci(previous_row["CI"]), res(current_row["ST0"]) >>) >>
                 ELSE << >>
        xor == IF previously_current_instruction = opcode_b("Xor")
               THEN LET st0_prev == previous_row["ST0"]
                        st1_prev == previous_row["ST1"]
                        st0 == current_row["ST0"]
                        from_xor_in_processor_to_and_in_u32_coprocessor ==
                            FMul(FSub(FAdd(st0_prev, st1_prev), st0), FInverse(BNew(2)))
                    IN << XSum(<< lhs(st0_prev), rhs(st1_prev), ci(opcode_b("And")),
                                  res(from_xor_in_processor_to_and_in_u32_coprocessor) >>) >>
               ELSE << >>
        unop == IF \/ previously_current_instruction = opcode_b("Log2Floor")
                   \/ previously_current_instruction = opcode_b("PopCount")
                THEN << XSum(<< lhs(previous_row["ST0"]), ci(previous_row["CI"]),
                                res(current_row["ST0"]) >>) >>
                ELSE << >>
        div_mod == IF previously_current_instruction = opcode_b("DivMod")
                   THEN << XSum(<< lhs(current_row["ST0"]), rhs(previous_row["ST1"]),
                                   ci(opcode_b("Lt")), res(1) >>),
                           XSum(<< lhs(previous_row["ST0"]), rhs(current_row["ST1"]),
                                   ci(opcode_b("Split")) >>) >>
                   ELSE << >>
    IN split \o binop \o xor \o unop \o div_mod

\* An instruction lookup in every row, padding rows included.
InstructionLookupInEveryRow(current_row, ch) ==
    << XSum(<< XScale(ch["ProgramAddressWeight"], current_row["IP"]),
               XScale(ch["ProgramInstructionWeight"], current_row["CI"]),
               XScale(ch["ProgramNextInstructionWeight"], current_row["NIA"]) >>) >>

\* The compressed row of the instruction lookup, or none on a padding row.
InstructionLookupCompressedRows(current_row, ch) ==
    IF current_row["IsPadding"] = 0
    THEN << XSum(<< XScale(ch["ProgramAddressWeight"], current_row["IP"]),
                    XScale(ch["ProgramInstructionWeight"], current_row["CI"]),
                    XScale(ch["ProgramNextInstructionWeight"], current_row["NIA"]) >>) >>
    ELSE << >>

\* Every element one loop iteration calls inverse() on.
ExtendInverted(previous_row, current_row, ch) ==
    [i \in DOMAIN InstructionLookupCompressedRows(current_row, ch) |->
        XSub(ch["InstructionLookupIndeterminate"],
             InstructionLookupCompressedRows(current_row, ch)[i])]
    \o [i \in DOMAIN U32CompressedRows(previous_row, current_row, ch) |->
        XSub(ch["U32Indeterminate"], U32CompressedRows(previous_row, current_row, ch)[i])]
    \o << XSub(ch["ClockJumpDifferenceLookupIndeterminate"], XLift(current_row["CLK"])) >>

\* inverse() of zero is fatal.
ExtendPanics(previous_row, current_row, ch) ==
    \E i \in DOMAIN ExtendInverted(previous_row, current_row, ch) :
        ExtendInverted(previous_row, current_row, ch)[i] = XZero

\* Sum of the inverses of (indeterminate - compressed row).
InverseSum(indeterminate, compressed_rows) ==
    XSum([i \in DOMAIN compressed_rows |-> XInverse(XSub(indeterminate, compressed_rows[i]))])

\* One iteration of the loop over the rows: the accumulators after the
\* iteration, given the accumulators before it.
ExtendAccumulators(previous_row, current_row, ch, acc) ==
    LET clk == current_row["CLK"]
        compressed_row_for_ram_table_permutation_argument ==
            XSum(<< XScale(ch["RamClkWeight"], clk),
                    XScale(ch["RamRampWeight"], current_row["RAMP"]),
                    XScale(ch["RamRamvWeight"], current_row["RAMV"]),
                    XScale(ch["RamPreviousInstructionWeight"],
                           current_row["PreviousInstruction"]) >>)
        compressed_row_for_jump_stack_table ==
            XSum(<< XScale(ch["JumpStackClkWeight"], clk),
                    XScale(ch["JumpStackCiWeight"], current_row["CI"]),
                    XScale(ch["JumpStackJspWeight"], current_row["JSP"]),
                    XScale(ch["JumpStackJsoWeight"], current_row["JSO"]),
                    XScale(ch["JumpStackJsdWeight"], current_row["JSD"]) >>)
        compressed_row_for_hash_input_and_sponge ==
            XSum([i \in 1 .. 10 |->
                    XScale(ch[HashStateWeight(i - 1)],
                           current_row[op_stack_column_by_index(i - 1)])])
        compressed_row_for_hash_digest ==
            XSum([i \in 1 .. 5 |->
                    XScale(ch[HashStateWeight(i - 1)],
                           current_row[op_stack_column_by_index(i + 4)])])
        prev_ci_is(instruction) ==
            previous_row # NoRow /\ previous_row["CI"] = opcode_b(instruction)
        sponge_after_init ==
            IF prev_ci_is("SpongeInit")
            THEN XAdd(XMul(acc.sponge_running_evaluation, ch["SpongeIndeterminate"]),
                      XScale(ch["HashCIWeight"], opcode_b("SpongeInit")))
            ELSE acc.sponge_running_evaluation
    IN [input_table_running_evaluation |->
            IF prev_ci_is("ReadIo")
            THEN XAdd(XMul(acc.input_table_running_evaluation,
                           ch["StandardInputIndeterminate"]),
                      XLift(current_row["ST0"]))
            ELSE acc.input_table_running_evaluation,
        output_table_running_evaluation |->
            IF current_row["CI"] = opcode_b("WriteIo")
            THEN XAdd(XMul(acc.output_table_running_evaluation,
                           ch["StandardOutputIndeterminate"]),
                      XLift(current_row["ST0"]))
            ELSE acc.output_table_running_evaluation,
        instruction_lookup_log_derivative |->
            XAdd(acc.instruction_lookup_log_derivative,
                 InverseSum(ch["InstructionLookupIndeterminate"],
                            InstructionLookupCompressedRows(current_row, ch))),
        op_stack_table_running_product |->
            XMul(acc.op_stack_table_running_product,
                 factor_for_op_stack_table_running_product(previous_row, current_row, ch)),
        ram_table_running_product |->
            XMul(acc.ram_table_running_product,
                 XSub(ch["RamIndeterminate"],
                      compressed_row_for_ram_table_permutation_argument)),
        jump_stack_running_product |->
            XMul(acc.jump_stack_running_product,
                 XSub(ch["JumpStackIndeterminate"], compressed_row_for_jump_stack_table)),
        hash_input_running_evaluation |->
            IF current_row["CI"] = opcode_b("Hash")
            THEN XAdd(XMul(acc.hash_input_running_evaluation, ch["HashInputIndeterminate"]),
                      compressed_row_for_hash_input_and_sponge)
            ELSE acc.hash_input_running_evaluation,
        hash_digest_running_evaluation |->
            IF prev_ci_is("Hash")
            THEN XAdd(XMul(acc.hash_digest_running_evaluation, ch["HashDigestIndeterminate"]),
                      compressed_row_for_hash_digest)
            ELSE acc.hash_digest_running_evaluation,
        sponge_running_evaluation |->
            IF prev_ci_is("SpongeAbsorb") \/ prev_ci_is("SpongeSqueeze")
            THEN XAdd(XAdd(XMul(sponge_after_init, ch["SpongeIndeterminate"]),
                           XScale(ch["HashCIWeight"], previous_row["CI"])),
                      compressed_row_for_hash_input_and_sponge)
            ELSE sponge_after_init,
        u32_table_running_sum_log_derivative |->
            XAdd(acc.u32_table_running_sum_log_derivative,
                 InverseSum(ch["U32Indeterminate"],
                            U32CompressedRows(previous_row, current_row, ch))),
        clock_jump_diff_lookup_op_stack_log_derivative |->
            XAdd(acc.clock_jump_diff_lookup_op_stack_log_derivative,
                 XScale(XInverse(XSub(ch["ClockJumpDifferenceLookupIndeterminate"],
                                      XLift(clk))),
                        current_row["ClockJumpDifferenceLookupMultiplicity"]))]

\* The extension row written at the end of an iteration.
ExtensionRow(acc) ==
    [c \in ProcessorExtTableColumn |->
        CASE c = "InputTableEvalArg" -> acc.input_table_running_evaluation
          [] c = "OutputTableEvalArg" -> acc.output_table_running_evaluation
          [] c = "InstructionLookupClientLogDerivative" ->
                acc.instruction_lookup_log_derivative
          [] c = "OpStackTablePermArg" -> acc.op_stack_table_running_product
          [] c = "RamTablePermArg" -> acc.ram_table_running_product
          [] c = "JumpStackTablePermArg" -> acc.jump_stack_running_product
          [] c = "HashInputEvalArg" -> acc.hash_input_running_evaluation
          [] c = "HashDigestEvalArg" -> acc.hash_digest_running_evaluation
          [] c = "SpongeEvalArg" -> acc.sponge_running_evaluation
          [] c = "U32LookupClientLogDerivative" -> acc.u32_table_running_sum_log_derivative
          [] c = "ClockJumpDifferenceLookupServerLogDerivative" ->
                acc.clock_jump_diff_lookup_op_stack_log_derivative]

\* Entry of extend on the padded table: the accumulators are declared.
ExtendStart ==
    /\ pc = "padded"
    /\ running' = InitialAccumulators
    /\ row_idx' = 0
    /\ pc' = "extend"
    /\ UNCHANGED << processor_table, processor_table_len, table_before, padding_template,
                    rows_assigned, ext_table, challenges, fnVars, airVars, streamVars >>

\* One iteration of the loop of extend.
ExtendRow ==
    /\ pc = "extend"
    /\ row_idx < Len(processor_table)
    /\ LET current_row == Row(processor_table, row_idx)
           previous_row == IF row_idx = 0 THEN NoRow ELSE Row(processor_table, row_idx - 1)
       IN IF ExtendPanics(previous_row, current_row, challenges)
          THEN /\ pc' = "panic"
               /\ UNCHANGED << running, ext_table, row_idx >>
          ELSE LET acc == ExtendAccumulators(previous_row, current_row, challenges, running)
               IN /\ running' = acc
                  /\ ext_table' = [ext_table EXCEPT ![row_idx + 1] = ExtensionRow(acc)]
                  /\ row_idx' = row_idx + 1
                  /\ pc' = IF row_idx + 1 = Len(processor_table)
                           THEN "extended" ELSE "extend"
    /\ UNCHANGED << processor_table, processor_table_len, table_before, padding_template,
                    rows_assigned, challenges, fnVars, airVars, streamVars >>

-----------------------------------------------------------------------------
(* Padding and extending a table                                           *)

InitTrace ==
    /\ IdleStream
    /\ \E n_rows \in 1 .. MaxRows, len \in 0 .. MaxRows + 1 :
        /\ len <= n_rows + 1
        /\ LET real == IF len <= n_rows THEN len ELSE n_rows
           IN \E program \in [1 .. real -> TraceInstructions],
                 multiplicities \in [1 .. real -> TraceMultiplicities],
                 kind \in { "zero", "stale" } :
                /\ processor_table =
                        MasterTable(n_rows, real, program, multiplicities, kind)
                /\ processor_table_len = len
                /\ ext_table = [i \in 1 .. n_rows |-> [c \in ProcessorExtTableColumn |-> XZero]]
    /\ table_before = processor_table
    /\ padding_template = NoRow
    /\ rows_assigned = {}
    /\ running = InitialAccumulators
    /\ row_idx = 0
    /\ challenges \in { DerivedChallenges(seed, ProgramDigest) : seed \in ChallengeSeeds }
    /\ pc = "pad_trace"
    /\ args = [op |-> "none"]
    /\ result = [done |-> FALSE]
    /\ curr = << >>
    /\ walk = << >>

NextTrace ==
    \/ PadStart
    \/ \E r \in 0 .. MaxRows : FillRow(r)
    \/ PadClk
    \/ PadMultiplicity
    \/ ExtendStart
    \/ ExtendRow

SpecTrace == InitTrace /\ [][NextTrace]_vars

-----------------------------------------------------------------------------
(* Initial and consistency constraints.  A constraint is the value its     *)
(* polynomial takes on the given row(s); it holds when the value is zero.  *)

\* All values of a constraint vector are zero.
AllZero(values) == \A i \in DOMAIN values : values[i] = XZero

\* An initial constraint that leaves the op stack pointer alone.
op_stack_pointer_is_unconstrained(base_row) == 0

\* op_stack_pointer_is_16 of initial_constraints
op_stack_pointer_is_16(base_row) == FSub(base_row["OpStackPointer"], 16)

initial_constraints(base_row, ext_row, ch) ==
    LET clk_is_0 == XLift(base_row["CLK"])
        ip_is_0 == XLift(base_row["IP"])
        jsp_is_0 == XLift(base_row["JSP"])
        jso_is_0 == XLift(base_row["JSO"])
        jsd_is_0 == XLift(base_row["JSD"])
        st_is_0(i) == XLift(base_row[op_stack_column_by_index(i)])
        ramp_is_0 == XLift(base_row["RAMP"])
        previous_instruction_is_0 == XLift(base_row["PreviousInstruction"])
        fold(acc, digest_element) ==
            XAdd(XMul(acc, ch["CompressProgramDigestIndeterminate"]), XLift(digest_element))
        compressed_program_digest ==
            fold(fold(fold(fold(fold(EvalArg_default_initial, base_row["ST11"]),
                 base_row["ST12"]), base_row["ST13"]), base_row["ST14"]), base_row["ST15"])
        compressed_program_digest_is_expected_program_digest ==
            XSub(compressed_program_digest, ch["CompressedProgramDigest"])
        running_evaluation_for_standard_input_is_initialized_correctly ==
            XSub(ext_row["InputTableEvalArg"], EvalArg_default_initial)
        compressed_row_for_instruction_lookup ==
            XAdd(XScale(ch["ProgramInstructionWeight"], base_row["CI"]),
                 XScale(ch["ProgramNextInstructionWeight"], base_row["NIA"]))
        instruction_lookup_log_derivative_is_initialized_correctly ==
            XSub(XMul(XSub(ext_row["InstructionLookupClientLogDerivative"],
                           LookupArg_default_initial),
                      XSub(ch["InstructionLookupIndeterminate"],
                           compressed_row_for_instruction_lookup)),
                 XLift(1))
        running_evaluation_for_standard_output_is_initialized_correctly ==
            XSub(ext_row["OutputTableEvalArg"], EvalArg_default_initial)
        running_product_for_op_stack_table_is_initialized_correctly ==
            XSub(ext_row["OpStackTablePermArg"], PermArg_default_initial)
        compressed_row_for_ram_table == XScale(ch["RamRamvWeight"], base_row["RAMV"])
        running_product_for_ram_table_is_initialized_correctly ==
            XSub(ext_row["RamTablePermArg"],
                 XMul(PermArg_default_initial,
                      XSub(ch["RamIndeterminate"], compressed_row_for_ram_table)))
        compressed_row_for_jump_stack_table ==
            XScale(ch["JumpStackCiWeight"], base_row["CI"])
        running_product_for_jump_stack_table_is_initialized_correctly ==
            XSub(ext_row["JumpStackTablePermArg"],
                 XMul(PermArg_default_initial,
                      XSub(ch["JumpStackIndeterminate"],
                           compressed_row_for_jump_stack_table)))
        clock_jump_diff_lookup_log_derivative_is_initialized_correctly ==
            XSub(ext_row["ClockJumpDifferenceLookupServerLogDerivative"],
                 LookupArg_default_initial)
        hash_selector == FSub(base_row["CI"], opcode_b("Hash"))
        hash_deselector == instruction_deselector_single_row("Hash", base_row)
        compressed_row == XLift(0)
        running_evaluation_hash_input_has_absorbed_first_row ==
            XSub(XSub(ext_row["HashInputEvalArg"],
                      XMul(ch["HashInputIndeterminate"], EvalArg_default_initial)),
                 compressed_row)
        running_evaluation_hash_input_is_default_initial ==
            XSub(ext_row["HashInputEvalArg"], EvalArg_default_initial)
        running_evaluation_hash_input_is_initialized_correctly ==
            XAdd(XScale(running_evaluation_hash_input_is_default_initial, hash_selector),
                 XScale(running_evaluation_hash_input_has_absorbed_first_row,
                        hash_deselector))
        running_evaluation_hash_digest_is_initialized_correctly ==
            XSub(ext_row["HashDigestEvalArg"], EvalArg_default_initial)
        running_evaluation_sponge_absorb_is_initialized_correctly ==
            XSub(ext_row["SpongeEvalArg"], EvalArg_default_initial)
        running_sum_log_derivative_for_u32_table_is_initialized_correctly ==
            XSub(ext_row["U32LookupClientLogDerivative"], LookupArg_default_initial)
    IN << clk_is_0, ip_is_0, jsp_is_0, jso_is_0, jsd_is_0,
          st_is_0(0), st_is_0(1), st_is_0(2), st_is_0(3), st_is_0(4), st_is_0(5),
          st_is_0(6), st_is_0(7), st_is_0(8), st_is_0(9), st_is_0(10),
          compressed_program_digest_is_expected_program_digest,
          XLift(op_stack_pointer_is_16(base_row)),
          ramp_is_0,
          previous_instruction_is_0,
          running_evaluation_for_standard_input_is_initialized_correctly,
          instruction_lookup_log_derivative_is_initialized_correctly,
          running_evaluation_for_standard_output_is_initialized_correctly,
          running_product_for_op_stack_table_is_initialized_correctly,
          running_product_for_ram_table_is_initialized_correctly,
          running_product_for_jump_stack_table_is_initialized_correctly,
          clock_jump_diff_lookup_log_derivative_is_initialized_correctly,
          running_evaluation_hash_input_is_initialized_correctly,
          running_evaluation_hash_digest_is_initialized_correctly,
          running_evaluation_sponge_absorb_is_initialized_correctly,
          running_sum_log_derivative_for_u32_table_is_initialized_correctly >>

\* The constraint of consistency_constraints on the lookup multiplicity of
\* padding rows, without the exemption of the row with CLK = 1.
multiplicity_is_0_in_every_padding_row(base_row) ==
    FMul(base_row["IsPadding"], base_row["ClockJumpDifferenceLookupMultiplicity"])

\* clock_jump_diff_lookup_multiplicity_is_0_in_padding_rows
clock_jump_diff_lookup_multiplicity_is_0_in_padding_rows(base_row) ==
    FMul(FMul(base_row["IsPadding"], FSub(base_row["CLK"], 1)),
         base_row["ClockJumpDifferenceLookupMultiplicity"])

consistency_constraints(base_row) ==
    LET ib_composition ==
            (base_row["IB0"] + 2 * base_row["IB1"] + 4 * base_row["IB2"]
                + 8 * base_row["IB3"] + 16 * base_row["IB4"] + 32 * base_row["IB5"]
                + 64 * base_row["IB6"] + 128 * base_row["IB7"]) % P
        ci_corresponds_to_ib0_thru_ib7 == FSub(base_row["CI"], ib_composition)
        is_bit(col) == FMul(base_row[col], FSub(base_row[col], 1))
        is_padding_is_bit == is_bit("IsPadding")
    IN << XLift(is_bit("IB0")), XLift(is_bit("IB1")), XLift(is_bit("IB2")),
          XLift(is_bit("IB3")), XLift(is_bit("IB4")), XLift(is_bit("IB5")),
          XLift(is_bit("IB6")), XLift(is_bit("IB7")),
          XLift(is_padding_is_bit),
          XLift(ci_corresponds_to_ib0_thru_ib7),
          XLift(clock_jump_diff_lookup_multiplicity_is_0_in_padding_rows(base_row)) >>

-----------------------------------------------------------------------------
(* Constraints common to all instructions                                  *)

clk_increases_by_1(curr_base, next_base) ==
    FSub(FSub(next_base["CLK"], curr_base["CLK"]), 1)

\* A table in which the padding indicator may fall back to 0.
is_padding_may_change(curr_base, next_base) == 0

is_padding_is_0_or_does_not_change(curr_base, next_base) ==
    FMul(curr_base["IsPadding"], FSub(next_base["IsPadding"], curr_base["IsPadding"]))

\* The constraint on the previous instruction without the deselector of
\* padding rows.
previous_instruction_is_copied_in_every_row(curr_base, next_base) ==
    FSub(next_base["PreviousInstruction"], curr_base["CI"])

previous_instruction_is_copied_correctly(curr_base, next_base) ==
    FMul(FSub(next_base["PreviousInstruction"], curr_base["CI"]),
         FSub(1, next_base["IsPadding"]))

instruction_independent_constraints(curr_base, next_base) ==
    << XLift(clk_increases_by_1(curr_base, next_base)),
       XLift(is_padding_is_0_or_does_not_change(curr_base, next_base)),
       XLift(previous_instruction_is_copied_correctly(curr_base, next_base)) >>

-----------------------------------------------------------------------------
(* Instruction groups.  A transition constraint is evaluated on a frame f:  *)
(* f.cb and f.nb are the current and the next base row, f.ce and f.ne the  *)
(* current and the next extension row, f.ch the challenges.                *)

\* next_base_row(to) - curr_base_row(from)
Carry(f, to, from) == XLift(FSub(f.nb[to], f.cb[from]))

\* helper_variable(index) of the current row; an index outside 0..6 is fatal.
helper_variable(f, index) ==
    CASE index = 0 -> f.cb["HV0"] [] index = 1 -> f.cb["HV1"]
      [] index = 2 -> f.cb["HV2"] [] index = 3 -> f.cb["HV3"]
      [] index = 4 -> f.cb["HV4"] [] index = 5 -> f.cb["HV5"]
      [] index = 6 -> f.cb["HV6"]

\* The indicator polynomial without the factors 1 - hv(i) of the bits that
\* are not set in the index.
indicator_polynomial_of_set_bits_only(f, index) ==
    LET hv(idx) == helper_variable(f, idx)
        factor(idx) == IF BitOf(index, idx) = 1 THEN hv(idx) ELSE 1
    IN FMul(FMul(FMul(factor(3), factor(2)), factor(1)), factor(0))

indicator_polynomial(f, index) ==
    LET hv(idx) == helper_variable(f, idx)
        no(idx) == FSub(1, hv(idx))
        product(a, b, c, d) == FMul(FMul(FMul(a, b), c), d)
    IN CASE index = 0 -> product(no(3), no(2), no(1), no(0))
         [] index = 1 -> product(no(3), no(2), no(1), hv(0))
         [] index = 2 -> product(no(3), no(2), hv(1), no(0))
         [] index = 3 -> product(no(3), no(2), hv(1), hv(0))
         [] index = 4 -> product(no(3), hv(2), no(1), no(0))
         [] index = 5 -> product(no(3), hv(2), no(1), hv(0))
         [] index = 6 -> product(no(3), hv(2), hv(1), no(0))
         [] index = 7 -> product(no(3), hv(2), hv(1), hv(0))
         [] index = 8 -> product(hv(3), no(2), no(1), no(0))
         [] index = 9 -> product(hv(3), no(2), no(1), hv(0))
         [] index = 10 -> product(hv(3), no(2), hv(1), no(0))
         [] index = 11 -> product(hv(3), no(2), hv(1), hv(0))
         [] index = 12 -> product(hv(3), hv(2), no(1), no(0))
         [] index = 13 -> product(hv(3), hv(2), no(1), hv(0))
         [] index = 14 -> product(hv(3), hv(2), hv(1), no(0))
         [] index = 15 -> product(hv(3), hv(2), hv(1), hv(0))

instruction_group_decompose_arg(f) ==
    LET is_a_bit(col) == FMul(f.cb[col], FSub(f.cb[col], 1))
        helper_variables_are_binary_decomposition_of_nia ==
            FSub(FSub(FSub(FSub(f.cb["NIA"], FMul(8, f.cb["HV3"])),
                           FMul(4, f.cb["HV2"])), FMul(2, f.cb["HV1"])), f.cb["HV0"])
    IN << XLift(is_a_bit("HV0")), XLift(is_a_bit("HV1")), XLift(is_a_bit("HV2")),
          XLift(is_a_bit("HV3")),
          XLift(helper_variables_are_binary_decomposition_of_nia) >>

instruction_group_keep_ram(f) ==
    << Carry(f, "RAMV", "RAMV"), Carry(f, "RAMP", "RAMP") >>

instruction_group_op_stack_remains_and_top_eleven_elements_unconstrained(f) ==
    << Carry(f, "ST11", "ST11"), Carry(f, "ST12", "ST12"), Carry(f, "ST13", "ST13"),
       Carry(f, "ST14", "ST14"), Carry(f, "ST15", "ST15"),
       Carry(f, "OpStackPointer", "OpStackPointer"),
       XSub(f.ne["OpStackTablePermArg"], f.ce["OpStackTablePermArg"]) >>

instruction_group_op_stack_remains_and_top_ten_elements_unconstrained(f) ==
    << Carry(f, "ST10", "ST10") >>
    \o instruction_group_op_stack_remains_and_top_eleven_elements_unconstrained(f)

instruction_group_op_stack_remains_and_top_three_elements_unconstrained(f) ==
    << Carry(f, "ST3", "ST3"), Carry(f, "ST4", "ST4"), Carry(f, "ST5", "ST5"),
       Carry(f, "ST6", "ST6"), Carry(f, "ST7", "ST7"), Carry(f, "ST8", "ST8"),
       Carry(f, "ST9", "ST9") >>
    \o instruction_group_op_stack_remains_and_top_ten_elements_unconstrained(f)

instruction_group_unop(f) ==
    << Carry(f, "ST1", "ST1"), Carry(f, "ST2", "ST2") >>
    \o instruction_group_op_stack_remains_and_top_three_elements_unconstrained(f)

instruction_group_keep_op_stack(f) ==
    << Carry(f, "ST0", "ST0") >> \o instruction_group_unop(f)

\* The factor the op stack permutation argument accumulates for the
\* underflow element of the given base row.
OpStackPermArgFactor(f, row_with_shorter_stack) ==
    LET compressed_row_for_op_stack_permutation_argument ==
            XSum(<< XScale(f.ch["OpStackClkWeight"], f.cb["CLK"]),
                    XScale(f.ch["OpStackIb1Weight"], f.cb["IB1"]),
                    XScale(f.ch["OpStackPointerWeight"],
                           row_with_shorter_stack["OpStackPointer"]),
                    XScale(f.ch["OpStackFirstUnderflowElementWeight"],
                           row_with_shorter_stack["ST15"]) >>)
    IN XSub(f.ch["OpStackIndeterminate"], compressed_row_for_op_stack_permutation_argument)

instruction_group_grow_op_stack_and_top_two_elements_unconstrained(f) ==
    LET running_product_op_stack_table_has_accumulated_last_element_of_current_row ==
            XSub(f.ne["OpStackTablePermArg"],
                 XMul(f.ce["OpStackTablePermArg"], OpStackPermArgFactor(f, f.cb)))
    IN << Carry(f, "ST2", "ST1"), Carry(f, "ST3", "ST2"), Carry(f, "ST4", "ST3"),
          Carry(f, "ST5", "ST4"), Carry(f, "ST6", "ST5"), Carry(f, "ST7", "ST6"),
          Carry(f, "ST8", "ST7"), Carry(f, "ST9", "ST8"), Carry(f, "ST10", "ST9"),
          Carry(f, "ST11", "ST10"), Carry(f, "ST12", "ST11"), Carry(f, "ST13", "ST12"),
          Carry(f, "ST14", "ST13"), Carry(f, "ST15", "ST14"),
          XLift(FSub(f.nb["OpStackPointer"], FAdd(f.cb["OpStackPointer"], 1))),
          running_product_op_stack_table_has_accumulated_last_element_of_current_row >>

instruction_group_grow_op_stack(f) ==
    << Carry(f, "ST1", "ST0") >>
    \o instruction_group_grow_op_stack_and_top_two_elements_unconstrained(f)

\* The group without the witness that the op stack does not underflow.
op_stack_shrinks_without_underflow_check(f) ==
    LET running_product_op_stack_table_has_accumulated_last_element_of_next_row ==
            XSub(f.ne["OpStackTablePermArg"],
                 XMul(f.ce["OpStackTablePermArg"], OpStackPermArgFactor(f, f.nb)))
    IN << Carry(f, "ST3", "ST4"), Carry(f, "ST4", "ST5"), Carry(f, "ST5", "ST6"),
          Carry(f, "ST6", "ST7"), Carry(f, "ST7", "ST8"), Carry(f, "ST8", "ST9"),
          Carry(f, "ST9", "ST10"), Carry(f, "ST10", "ST11"), Carry(f, "ST11", "ST12"),
          Carry(f, "ST12", "ST13"), Carry(f, "ST13", "ST14"), Carry(f, "ST14", "ST15"),
          XLift(FSub(f.nb["OpStackPointer"], FSub(f.cb["OpStackPointer"], 1))),
          running_product_op_stack_table_has_accumulated_last_element_of_next_row >>

instruction_group_op_stack_shrinks_and_top_three_elements_unconstrained(f) ==
    LET running_product_op_stack_table_has_accumulated_last_element_of_next_row ==
            XSub(f.ne["OpStackTablePermArg"],
                 XMul(f.ce["OpStackTablePermArg"], OpStackPermArgFactor(f, f.nb)))
    IN << Carry(f, "ST3", "ST4"), Carry(f, "ST4", "ST5"), Carry(f, "ST5", "ST6"),
          Carry(f, "ST6", "ST7"), Carry(f, "ST7", "ST8"), Carry(f, "ST8", "ST9"),
          Carry(f, "ST9", "ST10"), Carry(f, "ST10", "ST11"), Carry(f, "ST11", "ST12"),
          Carry(f, "ST12", "ST13"), Carry(f, "ST13", "ST14"), Carry(f, "ST14", "ST15"),
          XLift(FSub(f.nb["OpStackPointer"], FSub(f.cb["OpStackPointer"], 1))),
          running_product_op_stack_table_has_accumulated_last_element_of_next_row,
          XLift(FSub(FMul(FSub(f.cb["OpStackPointer"], 16), f.cb["HV0"]), 1)) >>

instruction_group_binop(f) ==
    << Carry(f, "ST1", "ST2"), Carry(f, "ST2", "ST3") >>
    \o instruction_group_op_stack_shrinks_and_top_three_elements_unconstrained(f)

instruction_group_shrink_op_stack(f) ==
    << Carry(f, "ST0", "ST1") >> \o instruction_group_binop(f)

instruction_group_keep_jump_stack(f) ==
    << Carry(f, "JSP", "JSP"), Carry(f, "JSO", "JSO"), Carry(f, "JSD", "JSD") >>

instruction_group_step_1(f) ==
    instruction_group_keep_jump_stack(f)
    \o << XLift(FSub(FSub(f.nb["IP"], f.cb["IP"]), 1)) >>

instruction_group_step_2(f) ==
    instruction_group_keep_jump_stack(f)
    \o << XLift(FSub(FSub(f.nb["IP"], f.cb["IP"]), 2)) >>

-----------------------------------------------------------------------------
(* Transition constraints of the instructions                              *)

instruction_pop(f) ==
    instruction_group_step_1(f)
    \o instruction_group_shrink_op_stack(f)
    \o instruction_group_keep_ram(f)

instruction_push(f) ==
    << Carry(f, "ST0", "NIA") >>
    \o instruction_group_grow_op_stack(f)
    \o instruction_group_step_2(f)
    \o instruction_group_keep_ram(f)

instruction_divine(f) ==
    instruction_group_step_1(f)
    \o instruction_group_grow_op_stack(f)
    \o instruction_group_keep_ram(f)

instruction_dup(f) ==
    LET st(k) == op_stack_column_by_index(k)
        specific_constraints ==
            [i \in 1 .. 16 |->
                XLift(FMul(indicator_polynomial(f, i - 1),
                           FSub(f.nb["ST0"], f.cb[st(i - 1)])))]
    IN specific_constraints
       \o instruction_group_decompose_arg(f)
       \o instruction_group_step_2(f)
       \o instruction_group_grow_op_stack(f)
       \o instruction_group_keep_ram(f)

\* swap as an instruction that exchanges st0 and st1 whatever its argument
\* is.
instruction_swap_of_st0_and_st1(f) ==
    LET st(k) == op_stack_column_by_index(k)
    IN << Carry(f, "ST1", "ST0"), Carry(f, "ST0", "ST1") >>
       \o [i \in 1 .. 14 |-> Carry(f, st(i + 1), st(i + 1))]
       \o << Carry(f, "OpStackPointer", "OpStackPointer"),
             XSub(f.ne["OpStackTablePermArg"], f.ce["OpStackTablePermArg"]) >>
       \o instruction_group_decompose_arg(f)
       \o instruction_group_step_2(f)
       \o instruction_group_keep_ram(f)

instruction_swap(f) ==
    LET st(k) == op_stack_column_by_index(k)
        indicator_poly(idx) == indicator_polynomial(f, idx)
        specific_constraints ==
            << XLift(indicator_poly(0)) >>
            \o [i \in 1 .. 15 |->
                    XLift(FMul(indicator_poly(i), FSub(f.nb[st(i)], f.cb["ST0"])))]
            \o [i \in 1 .. 15 |->
                    XLift(FMul(indicator_poly(i), FSub(f.nb["ST0"], f.cb[st(i)])))]
            \o [i \in 1 .. 15 |->
                    XLift(FMul(FSub(1, indicator_poly(i)), FSub(f.nb[st(i)], f.cb[st(i)])))]
            \o << Carry(f, "OpStackPointer", "OpStackPointer"),
                  XSub(f.ne["OpStackTablePermArg"], f.ce["OpStackTablePermArg"]) >>
    IN specific_constraints
       \o instruction_group_decompose_arg(f)
       \o instruction_group_step_2(f)
       \o instruction_group_keep_ram(f)

instruction_nop(f) ==
    instruction_group_step_1(f)
    \o instruction_group_keep_op_stack(f)
    \o instruction_group_keep_ram(f)

next_instruction_range_check_constraints_for_instruction_skiz(f) ==
    LET is_0_or_1(var) == FMul(f.cb[var], FSub(f.cb[var], 1))
        is_0_or_1_or_2_or_3(var) ==
            FMul(FMul(FMul(f.cb[var], FSub(f.cb[var], 1)), FSub(f.cb[var], 2)),
                 FSub(f.cb[var], 3))
    IN << XLift(is_0_or_1("HV2")), XLift(is_0_or_1_or_2_or_3("HV3")),
          XLift(is_0_or_1_or_2_or_3("HV4")), XLift(is_0_or_1_or_2_or_3("HV5")),
          XLift(is_0_or_1_or_2_or_3("HV6")) >>

\* skiz as an instruction that never skips: register ip is incremented by 1
\* whatever st0 holds.
instruction_skiz_with_ip_incremented_by_1(f) ==
    instruction_group_step_1(f)
    \o next_instruction_range_check_constraints_for_instruction_skiz(f)
    \o instruction_group_shrink_op_stack(f)
    \o instruction_group_keep_ram(f)

\* A decomposition in which HV3 counts fours.
nia_decomposes_with_hv3_shifted_by_2(nia, hv, p) ==
    LET sub(a, b) == (a + (p - (b % p))) % p
    IN sub(sub(sub(sub(sub(nia % p, hv[1]), 4 * hv[2]), 8 * hv[3]), 32 * hv[4]),
           128 * hv[5])

\* The polynomial nia_decomposes_to_hvs of skiz, on the next instruction and
\* the helper variables HV2..HV6, in the field of p elements.
nia_decomposes_to_hvs(nia, hv, p) ==
    LET sub(a, b) == (a + (p - (b % p))) % p
    IN sub(sub(sub(sub(sub(nia % p, hv[1]), 2 * hv[2]), 8 * hv[3]), 32 * hv[4]),
           128 * hv[5])

instruction_skiz(f) ==
    LET hv1_is_inverse_of_st0 == FSub(FMul(f.cb["HV1"], f.cb["ST0"]), 1)
        hv1_is_inverse_of_st0_or_hv1_is_0 == FMul(hv1_is_inverse_of_st0, f.cb["HV1"])
        hv1_is_inverse_of_st0_or_st0_is_0 == FMul(hv1_is_inverse_of_st0, f.cb["ST0"])
        ip_step(k) == FSub(FSub(f.nb["IP"], f.cb["IP"]), k)
        ip_case_1 == FMul(ip_step(1), f.cb["ST0"])
        ip_case_2 == FMul(FMul(ip_step(2), FSub(FMul(f.cb["ST0"], f.cb["HV1"]), 1)),
                          FSub(f.cb["HV2"], 1))
        ip_case_3 == FMul(FMul(ip_step(3), FSub(FMul(f.cb["ST0"], f.cb["HV1"]), 1)),
                          f.cb["HV2"])
        ip_incr_by_1_or_2_or_3 == FAdd(FAdd(ip_case_1, ip_case_2), ip_case_3)
    IN << XLift(hv1_is_inverse_of_st0_or_hv1_is_0),
          XLift(hv1_is_inverse_of_st0_or_st0_is_0),
          XLift(nia_decomposes_to_hvs(
                    f.cb["NIA"],
                    << f.cb["HV2"], f.cb["HV3"], f.cb["HV4"], f.cb["HV5"], f.cb["HV6"] >>,
                    P)),
          XLift(ip_incr_by_1_or_2_or_3) >>
       \o next_instruction_range_check_constraints_for_instruction_skiz(f)
       \o instruction_group_keep_jump_stack(f)
       \o instruction_group_shrink_op_stack(f)
       \o instruction_group_keep_ram(f)

instruction_call(f) ==
    LET jsp_incr_1 == FSub(FSub(f.nb["JSP"], f.cb["JSP"]), 1)
        jso_becomes_ip_plus_2 == FSub(FSub(f.nb["JSO"], f.cb["IP"]), 2)
    IN << XLift(jsp_incr_1), XLift(jso_becomes_ip_plus_2),
          Carry(f, "JSD", "NIA"), Carry(f, "IP", "NIA") >>
       \o instruction_group_keep_op_stack(f)
       \o instruction_group_keep_ram(f)

instruction_return(f) ==
    LET jsp_incr_1 == FSub(f.nb["JSP"], FSub(f.cb["JSP"], 1))
    IN << XLift(jsp_incr_1), Carry(f, "IP", "JSO") >>
       \o instruction_group_keep_op_stack(f)
       \o instruction_group_keep_ram(f)

instruction_recurse(f) ==
    << Carry(f, "IP", "JSD") >>
    \o instruction_group_keep_jump_stack(f)
    \o instruction_group_keep_op_stack(f)
    \o instruction_group_keep_ram(f)

instruction_assert(f) ==
    << XLift(FSub(f.cb["ST0"], 1)) >>
    \o instruction_group_step_1(f)
    \o instruction_group_shrink_op_stack(f)
    \o instruction_group_keep_ram(f)

\* halt without the constraint that the next instruction is halt.
instruction_halt_followed_by_any_instruction(f) ==
    instruction_group_step_1(f)
    \o instruction_group_keep_op_stack(f)
    \o instruction_group_keep_ram(f)

instruction_halt(f) ==
    << Carry(f, "CI", "CI") >>
    \o instruction_group_step_1(f)
    \o instruction_group_keep_op_stack(f)
    \o instruction_group_keep_ram(f)

instruction_read_mem(f) ==
    << Carry(f, "RAMP", "ST0"), XLift(FSub(f.nb["ST0"], f.nb["RAMV"])) >>
    \o instruction_group_step_1(f)
    \o instruction_group_grow_op_stack(f)

instruction_write_mem(f) ==
    << Carry(f, "RAMP", "ST1"), Carry(f, "RAMV", "ST0") >>
    \o instruction_group_step_1(f)
    \o instruction_group_shrink_op_stack(f)

instruction_hash(f) ==
    instruction_group_step_1(f)
    \o instruction_group_op_stack_remains_and_top_ten_elements_unconstrained(f)
    \o instruction_group_keep_ram(f)

instruction_divine_sibling(f) ==
    LET hv0_is_0_or_1 == FMul(f.cb["HV0"], FSub(f.cb["HV0"], 1))
        st10_is_shifted_1_bit_right ==
            FSub(FAdd(FMul(f.nb["ST10"], 2), f.cb["HV0"]), f.cb["ST10"])
        maybe_move(from, top) ==
            FAdd(FMul(FSub(1, f.cb["HV0"]), FSub(f.cb[from], f.nb[top])),
                 FMul(f.cb["HV0"], FSub(f.cb[from], f.nb[from])))
    IN << XLift(hv0_is_0_or_1),
          XLift(st10_is_shifted_1_bit_right),
          XLift(maybe_move("ST5", "ST0")),
          XLift(maybe_move("ST6", "ST1")),
          XLift(maybe_move("ST7", "ST2")),
          XLift(maybe_move("ST8", "ST3")),
          XLift(maybe_move("ST9", "ST4")) >>
       \o instruction_group_op_stack_remains_and_top_eleven_elements_unconstrained(f)
       \o instruction_group_step_1(f)
       \o instruction_group_keep_ram(f)

instruction_assert_vector(f) ==
    << XLift(FSub(f.cb["ST5"], f.cb["ST0"])), XLift(FSub(f.cb["ST6"], f.cb["ST1"])),
       XLift(FSub(f.cb["ST7"], f.cb["ST2"])), XLift(FSub(f.cb["ST8"], f.cb["ST3"])),
       XLift(FSub(f.cb["ST9"], f.cb["ST4"])) >>
    \o instruction_group_step_1(f)
    \o instruction_group_keep_op_stack(f)
    \o instruction_group_keep_ram(f)

instruction_sponge_init(f) ==
    instruction_group_step_1(f)
    \o instruction_group_keep_op_stack(f)
    \o instruction_group_keep_ram(f)

instruction_sponge_absorb(f) ==
    instruction_group_step_1(f)
    \o instruction_group_keep_op_stack(f)
    \o instruction_group_keep_ram(f)

\* sponge_squeeze with the constraints of sponge_init and sponge_absorb.
instruction_sponge_squeeze_keeping_the_op_stack(f) ==
    instruction_group_step_1(f)
    \o instruction_group_keep_op_stack(f)
    \o instruction_group_keep_ram(f)

instruction_sponge_squeeze(f) ==
    instruction_group_step_1(f)
    \o instruction_group_op_stack_remains_and_top_ten_elements_unconstrained(f)
    \o instruction_group_keep_ram(f)

instruction_add(f) ==
    << XLift(FSub(FSub(f.nb["ST0"], f.cb["ST0"]), f.cb["ST1"])) >>
    \o instruction_group_step_1(f)
    \o instruction_group_binop(f)
    \o instruction_group_keep_ram(f)

instruction_mul(f) ==
    << XLift(FSub(f.nb["ST0"], FMul(f.cb["ST0"], f.cb["ST1"]))) >>
    \o instruction_group_step_1(f)
    \o instruction_group_binop(f)
    \o instruction_group_keep_ram(f)

instruction_invert(f) ==
    << XLift(FSub(FMul(f.nb["ST0"], f.cb["ST0"]), 1)) >>
    \o instruction_group_step_1(f)
    \o instruction_group_unop(f)
    \o instruction_group_keep_ram(f)

\* eq without the constraint that hv1 is 0 where it is no inverse.
instruction_eq_with_any_hv1_for_equal_elements(f) ==
    LET diff == FSub(f.cb["ST1"], f.cb["ST0"])
    IN << XLift(FMul(diff, FSub(FMul(f.cb["HV1"], diff), 1))),
          XLift(FSub(f.nb["ST0"], FSub(1, FMul(f.cb["HV1"], diff)))) >>
       \o instruction_group_step_1(f)
       \o instruction_group_binop(f)
       \o instruction_group_keep_ram(f)

instruction_eq(f) ==
    LET diff == FSub(f.cb["ST1"], f.cb["ST0"])
        hv1_is_inverse_of_diff_or_hv1_is_0 ==
            FMul(f.cb["HV1"], FSub(FMul(f.cb["HV1"], diff), 1))
        hv1_is_inverse_of_diff_or_diff_is_0 ==
            FMul(diff, FSub(FMul(f.cb["HV1"], diff), 1))
        st0_becomes_1_if_diff_is_not_invertible ==
            FSub(f.nb["ST0"], FSub(1, FMul(f.cb["HV1"], diff)))
    IN << XLift(hv1_is_inverse_of_diff_or_hv1_is_0),
          XLift(hv1_is_inverse_of_diff_or_diff_is_0),
          XLift(st0_becomes_1_if_diff_is_not_invertible) >>
       \o instruction_group_step_1(f)
       \o instruction_group_binop(f)
       \o instruction_group_keep_ram(f)

\* split with the two chunks exchanged in the constraint on hv0: the high
\* bits are read from st0', the low bits from st1'.
instruction_split_with_chunks_exchanged(f) ==
    << XLift(FSub(f.cb["ST0"], FAdd(FMul(16, f.nb["ST1"]), f.nb["ST0"]))),
       XLift(FMul(f.nb["ST1"], FSub(FMul(f.cb["HV0"], FSub(f.nb["ST0"], 15)), 1))) >>
    \o instruction_group_grow_op_stack_and_top_two_elements_unconstrained(f)
    \o instruction_group_step_1(f)
    \o instruction_group_keep_ram(f)

\* The half word has 4 bits where the code's has 32, as the field has 8 bits
\* where the code's has 64: 16 stands for 1 << 32, 15 for 0xffff_ffff.
instruction_split(f) ==
    LET st0_decomposes_to_two_32_bit_chunks ==
            FSub(f.cb["ST0"], FAdd(FMul(16, f.nb["ST1"]), f.nb["ST0"]))
        hv0_holds_inverse_of_chunk_difference_or_low_bits_are_0 ==
            LET hv0 == f.cb["HV0"]
                hi == f.nb["ST1"]
                lo == f.nb["ST0"]
                ffff_ffff == 15
            IN FMul(lo, FSub(FMul(hv0, FSub(hi, ffff_ffff)), 1))
    IN << XLift(st0_decomposes_to_two_32_bit_chunks),
          XLift(hv0_holds_inverse_of_chunk_difference_or_low_bits_are_0) >>
       \o instruction_group_grow_op_stack_and_top_two_elements_unconstrained(f)
       \o instruction_group_step_1(f)
       \o instruction_group_keep_ram(f)

instruction_lt(f) ==
    instruction_group_step_1(f)
    \o instruction_group_binop(f)
    \o instruction_group_keep_ram(f)

instruction_and(f) ==
    instruction_group_step_1(f)
    \o instruction_group_binop(f)
    \o instruction_group_keep_ram(f)

instruction_xor(f) ==
    instruction_group_step_1(f)
    \o instruction_group_binop(f)
    \o instruction_group_keep_ram(f)

instruction_log_2_floor(f) ==
    instruction_group_step_1(f)
    \o instruction_group_unop(f)
    \o instruction_group_keep_ram(f)

instruction_pow(f) ==
    instruction_group_step_1(f)
    \o instruction_group_binop(f)
    \o instruction_group_keep_ram(f)

instruction_div_mod(f) ==
    LET numerator_is_quotient_times_denominator_plus_remainder ==
            FSub(FSub(f.cb["ST0"], FMul(f.cb["ST1"], f.nb["ST1"])), f.nb["ST0"])
    IN << XLift(numerator_is_quotient_times_denominator_plus_remainder),
          Carry(f, "ST2", "ST2") >>
       \o instruction_group_step_1(f)
       \o instruction_group_op_stack_remains_and_top_three_elements_unconstrained(f)
       \o instruction_group_keep_ram(f)

instruction_pop_count(f) ==
    instruction_group_step_1(f)
    \o instruction_group_unop(f)
    \o instruction_group_keep_ram(f)

instruction_xxadd(f) ==
    << XLift(FSub(f.nb["ST0"], FAdd(f.cb["ST0"], f.cb["ST3"]))),
       XLift(FSub(f.nb["ST1"], FAdd(f.cb["ST1"], f.cb["ST4"]))),
       XLift(FSub(f.nb["ST2"], FAdd(f.cb["ST2"], f.cb["ST5"]))) >>
    \o instruction_group_op_stack_remains_and_top_three_elements_unconstrained(f)
    \o instruction_group_step_1(f)
    \o instruction_group_keep_ram(f)

instruction_xxmul(f) ==
    LET c(col) == f.cb[col]
        st0_becomes_coefficient_0 ==
            FSub(f.nb["ST0"],
                 FSub(FSub(FMul(c("ST0"), c("ST3")), FMul(c("ST2"), c("ST4"))),
                      FMul(c("ST1"), c("ST5"))))
        st1_becomes_coefficient_1 ==
            FSub(f.nb["ST1"],
                 FAdd(FAdd(FSub(FAdd(FMul(c("ST1"), c("ST3")), FMul(c("ST0"), c("ST4"))),
                                FMul(c("ST2"), c("ST5"))),
                           FMul(c("ST2"), c("ST4"))),
                      FMul(c("ST1"), c("ST5"))))
        st2_becomes_coefficient_2 ==
            FSub(f.nb["ST2"],
                 FAdd(FAdd(FAdd(FMul(c("ST2"), c("ST3")), FMul(c("ST1"), c("ST4"))),
                           FMul(c("ST0"), c("ST5"))),
                      FMul(c("ST2"), c("ST5"))))
    IN << XLift(st0_becomes_coefficient_0), XLift(st1_becomes_coefficient_1),
          XLift(st2_becomes_coefficient_2) >>
       \o instruction_group_op_stack_remains_and_top_three_elements_unconstrained(f)
       \o instruction_group_step_1(f)
       \o instruction_group_keep_ram(f)

\* xinvert with a product whose second coefficient is that of the polynomial
\* product, not reduced.
instruction_xinv_with_unreduced_second_coefficient(f) ==
    LET c(col) == f.cb[col]
        n(col) == f.nb[col]
    IN << XLift(FSub(FSub(FSub(FMul(c("ST0"), n("ST0")), FMul(c("ST2"), n("ST1"))),
                          FMul(c("ST1"), n("ST2"))), 1)),
          XLift(FAdd(FMul(c("ST1"), n("ST0")), FMul(c("ST0"), n("ST1")))),
          XLift(FAdd(FAdd(FAdd(FMul(c("ST2"), n("ST0")), FMul(c("ST1"), n("ST1"))),
                          FMul(c("ST0"), n("ST2"))),
                     FMul(c("ST2"), n("ST2")))) >>
       \o instruction_group_op_stack_remains_and_top_three_elements_unconstrained(f)
       \o instruction_group_step_1(f)
       \o instruction_group_keep_ram(f)

instruction_xinv(f) ==
    LET c(col) == f.cb[col]
        n(col) == f.nb[col]
        first_coefficient_of_product_of_element_and_inverse_is_1 ==
            FSub(FSub(FSub(FMul(c("ST0"), n("ST0")), FMul(c("ST2"), n("ST1"))),
                      FMul(c("ST1"), n("ST2"))), 1)
        second_coefficient_of_product_of_element_and_inverse_is_0 ==
            FAdd(FAdd(FSub(FAdd(FMul(c("ST1"), n("ST0")), FMul(c("ST0"), n("ST1"))),
                           FMul(c("ST2"), n("ST2"))),
                      FMul(c("ST2"), n("ST1"))),
                 FMul(c("ST1"), n("ST2")))
        third_coefficient_of_product_of_element_and_inverse_is_0 ==
            FAdd(FAdd(FAdd(FMul(c("ST2"), n("ST0")), FMul(c("ST1"), n("ST1"))),
                      FMul(c("ST0"), n("ST2"))),
                 FMul(c("ST2"), n("ST2")))
    IN << XLift(first_coefficient_of_product_of_element_and_inverse_is_1),
          XLift(second_coefficient_of_product_of_element_and_inverse_is_0),
          XLift(third_coefficient_of_product_of_element_and_inverse_is_0) >>
       \o instruction_group_op_stack_remains_and_top_three_elements_unconstrained(f)
       \o instruction_group_step_1(f)
       \o instruction_group_keep_ram(f)

instruction_xbmul(f) ==
    << XLift(FSub(f.nb["ST0"], FMul(f.cb["ST0"], f.cb["ST1"]))),
       XLift(FSub(f.nb["ST1"], FMul(f.cb["ST0"], f.cb["ST2"]))),
       XLift(FSub(f.nb["ST2"], FMul(f.cb["ST0"], f.cb["ST3"]))) >>
    \o instruction_group_op_stack_shrinks_and_top_three_elements_unconstrained(f)
    \o instruction_group_step_1(f)
    \o instruction_group_keep_ram(f)

instruction_read_io(f) ==
    instruction_group_step_1(f)
    \o instruction_group_grow_op_stack(f)
    \o instruction_group_keep_ram(f)

instruction_write_io(f) ==
    instruction_group_step_1(f)
    \o instruction_group_shrink_op_stack(f)
    \o instruction_group_keep_ram(f)

get_transition_constraints_for_instruction(f, instruction) ==
    CASE instruction = "Pop" -> instruction_pop(f)
      [] instruction = "Push" -> instruction_push(f)
      [] instruction = "Divine" -> instruction_divine(f)
      [] instruction = "Dup" -> instruction_dup(f)
      [] instruction = "Swap" -> instruction_swap(f)
      [] instruction = "Nop" -> instruction_nop(f)
      [] instruction = "Skiz" -> instruction_skiz(f)
      [] instruction = "Call" -> instruction_call(f)
      [] instruction = "Return" -> instruction_return(f)
      [] instruction = "Recurse" -> instruction_recurse(f)
      [] instruction = "Assert" -> instruction_assert(f)
      [] instruction = "Halt" -> instruction_halt(f)
      [] instruction = "ReadMem" -> instruction_read_mem(f)
      [] instruction = "WriteMem" -> instruction_write_mem(f)
      [] instruction = "Hash" -> instruction_hash(f)
      [] instruction = "DivineSibling" -> instruction_divine_sibling(f)
      [] instruction = "AssertVector" -> instruction_assert_vector(f)
      [] instruction = "SpongeInit" -> instruction_sponge_init(f)
      [] instruction = "SpongeAbsorb" -> instruction_sponge_absorb(f)
      [] instruction = "SpongeSqueeze" -> instruction_sponge_squeeze(f)
      [] instruction = "Add" -> instruction_add(f)
      [] instruction = "Mul" -> instruction_mul(f)
      [] instruction = "Invert" -> instruction_invert(f)
      [] instruction = "Eq" -> instruction_eq(f)
      [] instruction = "Split" -> instruction_split(f)
      [] instruction = "Lt" -> instruction_lt(f)
      [] instruction = "And" -> instruction_and(f)
      [] instruction = "Xor" -> instruction_xor(f)
      [] instruction = "Log2Floor" -> instruction_log_2_floor(f)
      [] instruction = "Pow" -> instruction_pow(f)
      [] instruction = "DivMod" -> instruction_div_mod(f)
      [] instruction = "PopCount" -> instruction_pop_count(f)
      [] instruction = "XxAdd" -> instruction_xxadd(f)
      [] instruction = "XxMul" -> instruction_xxmul(f)
      [] instruction = "XInvert" -> instruction_xinv(f)
      [] instruction = "XbMul" -> instruction_xbmul(f)
      [] instruction = "ReadIo" -> instruction_read_io(f)
      [] instruction = "WriteIo" -> instruction_write_io(f)

-----------------------------------------------------------------------------
(* Table-linking transition constraints                                    *)

\* Sum over the first `count` hash state weights times the next row's stack
\* registers ST(first) onwards.
CompressedHashState(f, first, count) ==
    XSum([i \in 1 .. count |->
            XScale(f.ch[HashStateWeight(i - 1)],
                   f.nb[op_stack_column_by_index(first + i - 1)])])

log_derivative_accumulates_clk_next(f) ==
    XSub(XMul(XSub(f.ne["ClockJumpDifferenceLookupServerLogDerivative"],
                   f.ce["ClockJumpDifferenceLookupServerLogDerivative"]),
              XSub(f.ch["ClockJumpDifferenceLookupIndeterminate"], XLift(f.nb["CLK"]))),
         XLift(f.nb["ClockJumpDifferenceLookupMultiplicity"]))

running_evaluation_for_standard_input_updates_correctly(f) ==
    LET read_io_deselector == instruction_deselector_current_row("ReadIo", f.cb, f.nb)
        read_io_selector == FSub(f.cb["CI"], opcode_b("ReadIo"))
        running_evaluation_updates ==
            XSub(XSub(f.ne["InputTableEvalArg"],
                      XMul(f.ch["StandardInputIndeterminate"], f.ce["InputTableEvalArg"])),
                 XLift(f.nb["ST0"]))
        running_evaluation_remains ==
            XSub(f.ne["InputTableEvalArg"], f.ce["InputTableEvalArg"])
    IN XAdd(XScale(running_evaluation_remains, read_io_selector),
            XScale(running_evaluation_updates, read_io_deselector))

log_derivative_for_instruction_lookup_updates_correctly(f) ==
    LET compressed_row ==
            XSum(<< XScale(f.ch["ProgramAddressWeight"], f.nb["IP"]),
                    XScale(f.ch["ProgramInstructionWeight"], f.nb["CI"]),
                    XScale(f.ch["ProgramNextInstructionWeight"], f.nb["NIA"]) >>)
        log_derivative_remains ==
            XSub(f.ne["InstructionLookupClientLogDerivative"],
                 f.ce["InstructionLookupClientLogDerivative"])
        log_derivative_updates ==
            XSub(XMul(log_derivative_remains,
                      XSub(f.ch["InstructionLookupIndeterminate"], compressed_row)),
                 XOne)
    IN XAdd(XScale(log_derivative_updates, FSub(1, f.nb["IsPadding"])),
            XScale(log_derivative_remains, f.nb["IsPadding"]))

running_evaluation_for_standard_output_updates_correctly(f) ==
    LET write_io_deselector == instruction_deselector_next_row("WriteIo", f.cb, f.nb)
        write_io_selector == FSub(f.nb["CI"], opcode_b("WriteIo"))
        running_evaluation_updates ==
            XSub(XSub(f.ne["OutputTableEvalArg"],
                      XMul(f.ch["StandardOutputIndeterminate"], f.ce["OutputTableEvalArg"])),
                 XLift(f.nb["ST0"]))
        running_evaluation_remains ==
            XSub(f.ne["OutputTableEvalArg"], f.ce["OutputTableEvalArg"])
    IN XAdd(XScale(running_evaluation_remains, write_io_selector),
            XScale(running_evaluation_updates, write_io_deselector))

\* A running product of the RAM table that absorbs no factor in padding
\* rows.
running_product_for_ram_table_skips_padding_rows(f) ==
    LET compressed_row ==
            XSum(<< XScale(f.ch["RamClkWeight"], f.nb["CLK"]),
                    XScale(f.ch["RamRampWeight"], f.nb["RAMP"]),
                    XScale(f.ch["RamRamvWeight"], f.nb["RAMV"]),
                    XScale(f.ch["RamPreviousInstructionWeight"],
                           f.nb["PreviousInstruction"]) >>)
    IN XSub(f.ne["RamTablePermArg"],
            XMul(f.ce["RamTablePermArg"],
                 IF f.nb["IsPadding"] = 1 THEN XOne
                 ELSE XSub(f.ch["RamIndeterminate"], compressed_row)))

running_product_for_ram_table_updates_correctly(f) ==
    LET compressed_row ==
            XSum(<< XScale(f.ch["RamClkWeight"], f.nb["CLK"]),
                    XScale(f.ch["RamRampWeight"], f.nb["RAMP"]),
                    XScale(f.ch["RamRamvWeight"], f.nb["RAMV"]),
                    XScale(f.ch["RamPreviousInstructionWeight"],
                           f.nb["PreviousInstruction"]) >>)
    IN XSub(f.ne["RamTablePermArg"],
            XMul(f.ce["RamTablePermArg"], XSub(f.ch["RamIndeterminate"], compressed_row)))

running_product_for_jump_stack_table_updates_correctly(f) ==
    LET compressed_row ==
            XSum(<< XScale(f.ch["JumpStackClkWeight"], f.nb["CLK"]),
                    XScale(f.ch["JumpStackCiWeight"], f.nb["CI"]),
                    XScale(f.ch["JumpStackJspWeight"], f.nb["JSP"]),
                    XScale(f.ch["JumpStackJsoWeight"], f.nb["JSO"]),
                    XScale(f.ch["JumpStackJsdWeight"], f.nb["JSD"]) >>)
    IN XSub(f.ne["JumpStackTablePermArg"],
            XMul(f.ce["JumpStackTablePermArg"],
                 XSub(f.ch["JumpStackIndeterminate"], compressed_row)))

running_evaluation_hash_input_updates_correctly(f) ==
    LET hash_deselector == instruction_deselector_next_row("Hash", f.cb, f.nb)
        hash_selector == FSub(f.nb["CI"], opcode_b("Hash"))
        compressed_row == CompressedHashState(f, 0, 10)
        running_evaluation_updates ==
            XSub(XSub(f.ne["HashInputEvalArg"],
                      XMul(f.ch["HashInputIndeterminate"], f.ce["HashInputEvalArg"])),
                 compressed_row)
        running_evaluation_remains ==
            XSub(f.ne["HashInputEvalArg"], f.ce["HashInputEvalArg"])
    IN XAdd(XScale(running_evaluation_remains, hash_selector),
            XScale(running_evaluation_updates, hash_deselector))

running_evaluation_hash_digest_updates_correctly(f) ==
    LET hash_deselector == instruction_deselector_current_row("Hash", f.cb, f.nb)
        hash_selector == FSub(f.cb["CI"], opcode_b("Hash"))
        compressed_row == CompressedHashState(f, 5, 5)
        running_evaluation_updates ==
            XSub(XSub(f.ne["HashDigestEvalArg"],
                      XMul(f.ch["HashDigestIndeterminate"], f.ce["HashDigestEvalArg"])),
                 compressed_row)
        running_evaluation_remains ==
            XSub(f.ne["HashDigestEvalArg"], f.ce["HashDigestEvalArg"])
    IN XAdd(XScale(running_evaluation_remains, hash_selector),
            XScale(running_evaluation_updates, hash_deselector))

running_evaluation_sponge_updates_correctly(f) ==
    LET sponge_init_deselector ==
            instruction_deselector_current_row("SpongeInit", f.cb, f.nb)
        sponge_absorb_deselector ==
            instruction_deselector_current_row("SpongeAbsorb", f.cb, f.nb)
        sponge_squeeze_deselector ==
            instruction_deselector_current_row("SpongeSqueeze", f.cb, f.nb)
        sponge_instruction_selector ==
            FMul(FMul(FSub(f.cb["CI"], opcode_b("SpongeInit")),
                      FSub(f.cb["CI"], opcode_b("SpongeAbsorb"))),
                 FSub(f.cb["CI"], opcode_b("SpongeSqueeze")))
        compressed_row_next == CompressedHashState(f, 0, 10)
        running_evaluation_updates_for_sponge_init ==
            XSub(XSub(f.ne["SpongeEvalArg"],
                      XMul(f.ch["SpongeIndeterminate"], f.ce["SpongeEvalArg"])),
                 XScale(f.ch["HashCIWeight"], f.cb["CI"]))
        running_evaluation_updates_for_absorb_and_squeeze ==
            XSub(running_evaluation_updates_for_sponge_init, compressed_row_next)
        running_evaluation_remains == XSub(f.ne["SpongeEvalArg"], f.ce["SpongeEvalArg"])
    IN XSum(<< XScale(running_evaluation_remains, sponge_instruction_selector),
               XScale(running_evaluation_updates_for_sponge_init, sponge_init_deselector),
               XScale(running_evaluation_updates_for_absorb_and_squeeze,
                      sponge_absorb_deselector),
               XScale(running_evaluation_updates_for_absorb_and_squeeze,
                      sponge_squeeze_deselector) >>)

\* The constraint with a summand for no update that does not look at IB2.
log_derivative_with_u32_table_not_updated_whatever_ib2(f) ==
    LET deselector(instruction) == instruction_deselector_current_row(instruction, f.cb, f.nb)
    IN IF \E instruction \in { "Split", "Lt", "And", "Xor", "Pow", "Log2Floor",
                                "DivMod", "PopCount" } : deselector(instruction) # 0
       THEN XOne
       ELSE XSub(f.ne["U32LookupClientLogDerivative"], f.ce["U32LookupClientLogDerivative"])

log_derivative_with_u32_table_updates_correctly(f) ==
    LET two_inverse == FInverse(BNew(2))
        deselector(instruction) == instruction_deselector_current_row(instruction, f.cb, f.nb)
        running_sum == f.ce["U32LookupClientLogDerivative"]
        running_sum_next == f.ne["U32LookupClientLogDerivative"]
        lhs(v) == XScale(f.ch["U32LhsWeight"], v)
        rhs(v) == XScale(f.ch["U32RhsWeight"], v)
        ci(v) == XScale(f.ch["U32CiWeight"], v)
        res(v) == XScale(f.ch["U32ResultWeight"], v)
        split_factor ==
            XSub(f.ch["U32Indeterminate"],
                 XSum(<< lhs(f.nb["ST0"]), rhs(f.nb["ST1"]), ci(f.cb["CI"]) >>))
        binop_factor ==
            XSub(f.ch["U32Indeterminate"],
                 XSum(<< lhs(f.cb["ST0"]), rhs(f.cb["ST1"]), ci(f.cb["CI"]),
                         res(f.nb["ST0"]) >>))
        xor_factor ==
            XSub(f.ch["U32Indeterminate"],
                 XSum(<< lhs(f.cb["ST0"]), rhs(f.cb["ST1"]), ci(opcode_b("And")),
                         res(FMul(FSub(FAdd(f.cb["ST0"], f.cb["ST1"]), f.nb["ST0"]),
                                  two_inverse)) >>))
        unop_factor ==
            XSub(f.ch["U32Indeterminate"],
                 XSum(<< lhs(f.cb["ST0"]), ci(f.cb["CI"]), res(f.nb["ST0"]) >>))
        div_mod_factor_for_lt ==
            XSub(f.ch["U32Indeterminate"],
                 XSum(<< lhs(f.nb["ST0"]), rhs(f.cb["ST1"]), ci(opcode_b("Lt")),
                         f.ch["U32ResultWeight"] >>))
        div_mod_factor_for_range_check ==
            XSub(f.ch["U32Indeterminate"],
                 XSum(<< lhs(f.cb["ST0"]), rhs(f.nb["ST1"]), ci(opcode_b("Split")) >>))
        difference == XSub(running_sum_next, running_sum)
        absorbs(factor) == XSub(XMul(difference, factor), XOne)
        running_sum_absorbs_split_factor == absorbs(split_factor)
        running_sum_absorbs_binop_factor == absorbs(binop_factor)
        running_sum_absorb_xor_factor == absorbs(xor_factor)
        running_sum_absorbs_unop_factor == absorbs(unop_factor)
        split_summand == XScale(running_sum_absorbs_split_factor, deselector("Split"))
        lt_summand == XScale(running_sum_absorbs_binop_factor, deselector("Lt"))
        and_summand == XScale(running_sum_absorbs_binop_factor, deselector("And"))
        xor_summand == XScale(running_sum_absorb_xor_factor, deselector("Xor"))
        pow_summand == XScale(running_sum_absorbs_binop_factor, deselector("Pow"))
        log_2_floor_summand ==
            XScale(running_sum_absorbs_unop_factor, deselector("Log2Floor"))
        div_mod_summand ==
            XScale(XSub(XSub(XMul(XMul(difference, div_mod_factor_for_lt),
                                  div_mod_factor_for_range_check),
                             div_mod_factor_for_lt),
                        div_mod_factor_for_range_check),
                   deselector("DivMod"))
        pop_count_summand == XScale(running_sum_absorbs_unop_factor, deselector("PopCount"))
        no_update_summand == XScale(difference, FSub(1, f.cb["IB2"]))
    IN XSum(<< split_summand, lt_summand, and_summand, xor_summand, pow_summand,
               log_2_floor_summand, div_mod_summand, pop_count_summand,
               no_update_summand >>)

-----------------------------------------------------------------------------
(* Fusion of the per-instruction constraints and the transition            *)
(* constraints                                                             *)

\* The constraint number idx (from 1) of a vector, or the zero polynomial
\* behind its end.
GetOrZero(constraints, idx) ==
    IF idx <= Len(constraints) THEN constraints[idx] ELSE XZero

\* The longest of the vectors of a sequence of vectors.
RECURSIVE MaxLength(_)
MaxLength(vectors) ==
    IF vectors = << >> THEN 0
    ELSE LET rest == MaxLength(Tail(vectors))
         IN IF Len(Head(vectors)) > rest THEN Len(Head(vectors)) ELSE rest

\* A frame of zero rows, on which the number of constraints of a vector is
\* counted.
ZeroFrame ==
    [cb |-> ZeroBaseRow, ce |-> ExtensionRow(InitialAccumulators),
     nb |-> ZeroBaseRow, ne |-> ExtensionRow(InitialAccumulators),
     ch |-> SampleChallenges(1)]

\* max_number_of_constraints of combine_instruction_constraints_with_deselectors
max_number_of_instruction_constraints ==
    MaxLength([i \in 1 .. Len(ALL_INSTRUCTIONS) |->
                get_transition_constraints_for_instruction(ZeroFrame, ALL_INSTRUCTIONS[i])])

\* The sum, constraint by constraint, of the constraint vectors of the given
\* instructions, each multiplied by the deselector of its instruction.
RECURSIVE SumOfDeselected(_, _)
SumOfDeselected(f, instructions) ==
    IF instructions = << >>
    THEN [idx \in 1 .. max_number_of_instruction_constraints |-> XZero]
    ELSE LET instruction == Head(instructions)
             deselector == instruction_deselector_current_row(instruction, f.cb, f.nb)
             tc_polys_for_instr ==
                get_transition_constraints_for_instruction(f, instruction)
             rest == SumOfDeselected(f, Tail(instructions))
         IN [idx \in 1 .. max_number_of_instruction_constraints |->
                XAdd(XScale(GetOrZero(tc_polys_for_instr, idx), deselector), rest[idx])]

\* A fusion in which every sum holds the constraints one position later.
combine_instruction_constraints_one_position_later(f) ==
    LET is_selected(instruction) ==
            instruction_deselector_current_row(instruction, f.cb, f.nb) # 0
        sums == SumOfDeselected(f, SelectSeq(ALL_INSTRUCTIONS, is_selected))
    IN [idx \in 1 .. max_number_of_instruction_constraints |->
            GetOrZero(sums, idx + 1)]

\* The sum runs over the instructions whose deselector does not evaluate to
\* zero: the other instructions add zero to every sum.
combine_instruction_constraints_with_deselectors(f) ==
    LET is_selected(instruction) ==
            instruction_deselector_current_row(instruction, f.cb, f.nb) # 0
    IN SumOfDeselected(f, SelectSeq(ALL_INSTRUCTIONS, is_selected))

\* A fusion whose constraints of padding rows leave the RAM columns free.
combine_with_padding_constraints_without_keep_ram(f, instruction_transition_constraints) ==
    LET padding_row_transition_constraints ==
            << Carry(f, "IP", "IP"), Carry(f, "CI", "CI"), Carry(f, "NIA", "NIA") >>
            \o instruction_group_keep_jump_stack(f)
            \o instruction_group_keep_op_stack(f)
        max_number_of_constraints ==
            MaxLength(<< instruction_transition_constraints,
                         padding_row_transition_constraints >>)
    IN [idx \in 1 .. max_number_of_constraints |->
            XAdd(XScale(GetOrZero(instruction_transition_constraints, idx),
                        FSub(1, f.nb["IsPadding"])),
                 XScale(GetOrZero(padding_row_transition_constraints, idx),
                        f.nb["IsPadding"]))]

combine_transition_constraints_with_padding_constraints(f, instruction_transition_constraints) ==
    LET padding_row_transition_constraints ==
            << Carry(f, "IP", "IP"), Carry(f, "CI", "CI"), Carry(f, "NIA", "NIA") >>
            \o instruction_group_keep_jump_stack(f)
            \o instruction_group_keep_op_stack(f)
            \o instruction_group_keep_ram(f)
        padding_row_deselector == FSub(1, f.nb["IsPadding"])
        padding_row_selector == f.nb["IsPadding"]
        max_number_of_constraints ==
            MaxLength(<< instruction_transition_constraints,
                         padding_row_transition_constraints >>)
    IN [idx \in 1 .. max_number_of_constraints |->
            XAdd(XScale(GetOrZero(instruction_transition_constraints, idx),
                        padding_row_deselector),
                 XScale(GetOrZero(padding_row_transition_constraints, idx),
                        padding_row_selector))]

-----------------------------------------------------------------------------
(* transition_constraints and terminal_constraints                         *)

transition_constraints(f) ==
    LET deselected_transition_constraints ==
            combine_instruction_constraints_with_deselectors(f)
        doubly_deselected_transition_constraints ==
            combine_transition_constraints_with_padding_constraints(
                f, deselected_transition_constraints)
        table_linking_constraints ==
            << log_derivative_accumulates_clk_next(f),
               running_evaluation_for_standard_input_updates_correctly(f),
               log_derivative_for_instruction_lookup_updates_correctly(f),
               running_evaluation_for_standard_output_updates_correctly(f),
               running_product_for_ram_table_updates_correctly(f),
               running_product_for_jump_stack_table_updates_correctly(f),
               running_evaluation_hash_input_updates_correctly(f),
               running_evaluation_hash_digest_updates_correctly(f),
               running_evaluation_sponge_updates_correctly(f),
               log_derivative_with_u32_table_updates_correctly(f) >>
    IN instruction_independent_constraints(f.cb, f.nb)
       \o doubly_deselected_transition_constraints
       \o table_linking_constraints

terminal_constraints(base_row) ==
    LET last_ci_is_halt == FSub(base_row["CI"], opcode_b("Halt"))
    IN << XLift(last_ci_is_halt) >>

-----------------------------------------------------------------------------
(* Rows checked against the AIR: a first row against the initial           *)
(* constraints, then row after row against the transition constraints      *)

\* Longest sequence of rows checked.
MaxAirRows == 3

\* Instructions the rows of the sequences hold.
AirInstructions == { "Push", "Pop", "Nop", "Halt" }

\* The frame of two consecutive rows, each a base row with its accumulators.
Frame(current, next, ch) ==
    [cb |-> current.b, ce |-> ExtensionRow(current.acc),
     nb |-> next.b, ne |-> ExtensionRow(next.acc), ch |-> ch]

\* The first row of an honest trace of a program starting with the given
\* instruction.
HonestFirstRow(instruction, nia) ==
    [RealRow(0, instruction, 0, 0) EXCEPT !["NIA"] = nia]

\* First rows the sequences start with.  A first row is offered with any
\* padding indicator, and with the extension columns extend computes for it
\* or with those extend computes for the row that is no padding row.
FirstRowCandidates ==
    { HonestFirstRow(instruction, nia) :
        instruction \in AirInstructions, nia \in { 0, 5 } }

\* The given row one clock cycle later, with the helper variables and the
\* lookup multiplicity cleared.
Advanced(row, ip_step) ==
    [row EXCEPT
        !["CLK"] = FAdd(@, 1), !["IP"] = FAdd(@, ip_step),
        !["PreviousInstruction"] = row["CI"],
        !["ClockJumpDifferenceLookupMultiplicity"] = 0,
        !["HV0"] = 0, !["HV1"] = 0, !["HV2"] = 0, !["HV3"] = 0,
        !["HV4"] = 0, !["HV5"] = 0, !["HV6"] = 0]

\* The op stack of the row after a new top element is pushed.
Grown(row, top) ==
    [row EXCEPT
        !["OpStackPointer"] = FAdd(@, 1), !["ST0"] = top,
        !["ST1"] = row["ST0"], !["ST2"] = row["ST1"], !["ST3"] = row["ST2"],
        !["ST4"] = row["ST3"], !["ST5"] = row["ST4"], !["ST6"] = row["ST5"],
        !["ST7"] = row["ST6"], !["ST8"] = row["ST7"], !["ST9"] = row["ST8"],
        !["ST10"] = row["ST9"], !["ST11"] = row["ST10"], !["ST12"] = row["ST11"],
        !["ST13"] = row["ST12"], !["ST14"] = row["ST13"], !["ST15"] = row["ST14"]]

\* The op stack of the row after the top element is popped; the op stack
\* pointer is lowered by the given number.
Shrunk(row, by) ==
    [row EXCEPT
        !["OpStackPointer"] = FSub(@, by),
        !["ST0"] = row["ST1"], !["ST1"] = row["ST2"], !["ST2"] = row["ST3"],
        !["ST3"] = row["ST4"], !["ST4"] = row["ST5"], !["ST5"] = row["ST6"],
        !["ST6"] = row["ST7"], !["ST7"] = row["ST8"], !["ST8"] = row["ST9"],
        !["ST9"] = row["ST10"], !["ST10"] = row["ST11"], !["ST11"] = row["ST12"],
        !["ST12"] = row["ST13"], !["ST13"] = row["ST14"], !["ST14"] = row["ST15"],
        !["ST15"] = 0]

\* Base rows offered as successor of the given base row: the stack grows,
\* shrinks (the pointer falling by one or by two) or stays, or the row is
\* repeated; the instruction, the padding indicator and HV0 of the
\* successor are chosen freely.
SuccessorCandidates(row) ==
    LET moved == { Grown(Advanced(row, 2), row["NIA"]), Shrunk(Advanced(row, 1), 1),
                   Shrunk(Advanced(row, 1), 2), Advanced(row, 1) }
        steps ==
            { [WithInstructionBits(next, opcode(instruction)) EXCEPT
                    !["NIA"] = IF instruction = "Push" THEN 5 ELSE 0,
                    !["IsPadding"] = is_padding,
                    !["HV0"] = IF hv0 = "inverse"
                               THEN IF next["OpStackPointer"] = 16 THEN 0
                                    ELSE FInverse(FSub(next["OpStackPointer"], 16))
                               ELSE IF hv0 = "one" THEN 1 ELSE 2] :
                next \in moved,
                instruction \in AirInstructions,
                is_padding \in { 0, 1 },
                hv0 \in { "inverse", "one", "two" } }
        repeats ==
            { [row EXCEPT !["CLK"] = FAdd(@, 1),
                          !["ClockJumpDifferenceLookupMultiplicity"] = 0,
                          !["IsPadding"] = is_padding] : is_padding \in { 0, 1, 2 } }
    IN steps \cup repeats

\* The transition constraints hold on the frame.  The constraints common to
\* all instructions and the fused constraints are looked at first; the last
\* conjunct is the whole vector.
SatisfiesTransitionConstraints(f) ==
    /\ AllZero(instruction_independent_constraints(f.cb, f.nb))
    /\ AllZero(combine_transition_constraints_with_padding_constraints(
                    f, combine_instruction_constraints_with_deselectors(f)))
    /\ AllZero(transition_constraints(f))

\* The instruction bits of the row are those of an instruction.
LegalInstructionBits(row) ==
    \E instruction \in Instruction :
        \A k \in 0 .. 7 : row[IBColumn(k)] = ib(instruction, k)

\* The base row with the accumulators extend computes for it.
Extended(previous, row, ch) ==
    [b |-> row,
     acc |-> IF previous = NoRow
             THEN ExtendAccumulators(NoRow, row, ch, InitialAccumulators)
             ELSE ExtendAccumulators(previous.b, row, ch, previous.acc)]

InitAir ==
    /\ IdleStream
    /\ pc = "air"
    /\ challenges \in { DerivedChallenges(seed, ProgramDigest) : seed \in ChallengeSeeds }
    /\ \E row \in FirstRowCandidates, is_padding \in { 0, 1, 2 }, as_given \in BOOLEAN :
        /\ ~ExtendPanics(NoRow, row, challenges)
        /\ LET marked == [row EXCEPT !["IsPadding"] = is_padding]
               first == [b |-> marked,
                         acc |-> IF as_given
                                 THEN Extended(NoRow, marked, challenges).acc
                                 ELSE Extended(NoRow, row, challenges).acc]
           IN /\ AllZero(initial_constraints(first.b, ExtensionRow(first.acc), challenges))
              /\ curr = first
    /\ walk = [rows |-> 1, prev |-> NoRow,
               consistent |-> AllZero(consistency_constraints(curr.b))]
    /\ processor_table = << >>
    /\ processor_table_len = 0
    /\ table_before = << >>
    /\ padding_template = NoRow
    /\ rows_assigned = {}
    /\ ext_table = << >>
    /\ running = << >>
    /\ row_idx = 0
    /\ args = [op |-> "none"]
    /\ result = [done |-> FALSE]

\* The verifier checks the next row pair: the successor is accepted when
\* every transition constraint evaluates to zero on the pair.
AirStep ==
    /\ pc = "air"
    /\ walk.rows < MaxAirRows
    /\ LegalInstructionBits(curr.b)
    /\ \E row \in SuccessorCandidates(curr.b) :
        /\ ~ExtendPanics(curr.b, row, challenges)
        /\ LET next == Extended(curr, row, challenges)
           IN /\ SatisfiesTransitionConstraints(Frame(curr, next, challenges))
              /\ curr' = next
              /\ walk' = [rows |-> walk.rows + 1, prev |-> curr,
                          consistent |-> /\ walk.consistent
                                         /\ AllZero(consistency_constraints(next.b))]
    /\ UNCHANGED << traceVars, fnVars, streamVars >>

\* The verifier checks the last row against the terminal constraints.
AirFinish ==
    /\ pc = "air"
    /\ AllZero(terminal_constraints(curr.b))
    /\ pc' = "accepted"
    /\ UNCHANGED << processor_table, processor_table_len, table_before, padding_template,
                    rows_assigned, ext_table, running, row_idx, challenges, fnVars,
                    airVars, streamVars >>

NextAir ==
    \/ AirStep
    \/ AirFinish

SpecAir == InitAir /\ [][NextAir]_vars

-----------------------------------------------------------------------------
(* Evaluation of the initial constraints on one row                        *)

\* Instructions of the rows offered to the initial constraints.
InitialInstructions == AirInstructions \cup { "WriteIo", "Hash" }

\* Rows offered to the initial constraints: honest first rows, and honest
\* first rows with one base column raised by one.
InitialRowCandidates ==
    LET honest == { HonestFirstRow(instruction, nia) :
                        instruction \in InitialInstructions, nia \in { 0, 5 } }
    IN honest \cup { [row EXCEPT ![c] = FAdd(@, 1)] :
                        row \in honest, c \in ProcessorBaseTableColumn }

InitInitial ==
    /\ IdleStream
    /\ args \in [op : { "initial_constraints" }, row : InitialRowCandidates]
    /\ result = [done |-> FALSE, value |-> FALSE]
    /\ challenges \in { DerivedChallenges(seed, ProgramDigest) : seed \in ChallengeSeeds }
    /\ pc = "idle"
    /\ processor_table = << >>
    /\ processor_table_len = 0
    /\ table_before = << >>
    /\ padding_template = NoRow
    /\ rows_assigned = {}
    /\ ext_table = << >>
    /\ running = << >>
    /\ row_idx = 0
    /\ curr = << >>
    /\ walk = << >>

\* The row is extended and checked against the initial constraints.
EvaluateInitial ==
    /\ args.op = "initial_constraints"
    /\ ~result.done
    /\ result' =
        [done |-> TRUE,
         value |->
            /\ ~ExtendPanics(NoRow, args.row, challenges)
            /\ AllZero(initial_constraints(
                    args.row,
                    ExtensionRow(Extended(NoRow, args.row, challenges).acc),
                    challenges))]
    /\ UNCHANGED << traceVars, args, airVars, streamVars >>

NextInitial == EvaluateInitial

SpecInitial == InitInitial /\ [][NextInitial]_vars

-----------------------------------------------------------------------------
(* Evaluation of the transition constraints of one instruction on one row  *)
(* pair, and of the functions the constraints and extend are built from    *)

\* Largest step of the instruction pointer offered in a row pair.
MaxIpStep == 4

\* The frame of two consecutive base rows: the extension columns are those
\* extend computes for the two rows, with the next row's op stack running
\* product moved by the given shift.
InstructionFrame(current, next, shift, ch) ==
    LET c == Extended(NoRow, current, ch)
        n == Extended(c, next, ch)
        ne == ExtensionRow(n.acc)
    IN [cb |-> current, ce |-> ExtensionRow(c.acc), nb |-> next,
        ne |-> [col \in ProcessorExtTableColumn |->
                    IF col = "OpStackTablePermArg"
                    THEN XAdd(ne[col], XLift(shift)) ELSE ne[col]],
        ch |-> ch]

\* The row pairs offered to the instructions, with the instruction whose
\* constraints they are offered to.
\* skiz: an op stack of 17 elements, any of three tops of the stack with a
\* right or wrong inverse, a next instruction with a right or wrong
\* decomposition, and every step of the instruction pointer.
InstructionFrames ==
    LET inverse_or(st, hv) ==
            IF hv = "inverse" THEN IF st = 0 THEN 0 ELSE FInverse(st)
            ELSE IF hv = "one" THEN 1 ELSE 2
        skiz_row(st0, nia, hv1, hv2, hv34) ==
            [RealRow(1, "Skiz", opcode("Push"), 0) EXCEPT
                !["ST0"] = st0, !["ST1"] = 7, !["NIA"] = nia,
                !["OpStackPointer"] = 17, !["HV0"] = 1,
                !["HV1"] = inverse_or(st0, hv1),
                !["HV2"] = hv2, !["HV3"] = hv34[1], !["HV4"] = hv34[2]]
        skiz ==
            { [instruction |-> "Skiz",
               current |-> skiz_row(st0, nia, hv1, hv2, hv34),
               next |-> Shrunk(Advanced(skiz_row(st0, nia, hv1, hv2, hv34), ip_step), 1),
               shift |-> 0] :
                st0 \in { 0, 1, 3 },
                nia \in { opcode("Halt"), opcode("Push"), opcode("Assert") },
                hv1 \in { "inverse", "one", "two" }, hv2 \in { 0, 1, 2 },
                hv34 \in { << 0, 0 >>, << 1, 2 >> }, ip_step \in 0 .. MaxIpStep }
        \* swap: a stack of sixteen different elements, an argument n in 0 .. 16
        \* with the helper variables holding the bits of n or of n + 1, and a
        \* next row in which ST0 is swapped with element 0 (nothing is), n or
        \* n + 1; the next row is as it should be or is off in one place: the
        \* instruction pointer, the op stack pointer, the running product of
        \* the op stack table or one stack element.
        swap_row(n, bits) ==
            [RealRow(1, "Swap", opcode("Push"), 0) EXCEPT
                !["NIA"] = n,
                !["HV0"] = BitOf(bits, 0), !["HV1"] = BitOf(bits, 1),
                !["HV2"] = BitOf(bits, 2), !["HV3"] = BitOf(bits, 3),
                !["ST0"] = 20, !["ST1"] = 21, !["ST2"] = 22, !["ST3"] = 23,
                !["ST4"] = 24, !["ST5"] = 25, !["ST6"] = 26, !["ST7"] = 27,
                !["ST8"] = 28, !["ST9"] = 29, !["ST10"] = 30, !["ST11"] = 31,
                !["ST12"] = 32, !["ST13"] = 33, !["ST14"] = 34, !["ST15"] = 35]
        swapped(row, m) ==
            [row EXCEPT !["ST0"] = row[op_stack_column_by_index(m)],
                        ![op_stack_column_by_index(m)] = row["ST0"]]
        stack == { op_stack_column_by_index(k) : k \in 0 .. 15 }
        off(row, place) ==
            IF place \in stack \cup { "OpStackPointer" }
            THEN [row EXCEPT ![place] = FAdd(@, 1)]
            ELSE row
        swap ==
            { [instruction |-> "Swap",
               current |-> swap_row(n, (n + d) % 16),
               next |-> off(swapped(Advanced(swap_row(n, (n + d) % 16),
                                             IF place = "IP" THEN ip_step ELSE 2),
                                    (IF m = 0 THEN 0 ELSE n + m - 1) % 16), place),
               shift |-> IF place = "OpStackTablePermArg" THEN 1 ELSE 0] :
                n \in 0 .. 16, d \in { 0, 1 }, m \in { 0, 1, 2 },
                place \in stack \cup { "IP", "OpStackPointer", "OpStackTablePermArg" },
                ip_step \in 0 .. MaxIpStep }
        \* eq: an op stack of 17 elements whose two top elements are equal or
        \* not, HV1 holding the inverse of their difference (0 if there is
        \* none), 0, 1 or 2, and a next row with 0, 1 or 2 on top.
        eq_row(st0, st1, hv1) ==
            [RealRow(1, "Eq", opcode("Push"), 0) EXCEPT
                !["ST0"] = st0, !["ST1"] = st1, !["ST2"] = 9,
                !["OpStackPointer"] = 17, !["HV0"] = 1,
                !["HV1"] = IF hv1 = "zero" THEN 0 ELSE inverse_or(FSub(st1, st0), hv1)]
        eq ==
            { [instruction |-> "Eq",
               current |-> eq_row(st0, st1, hv1),
               next |-> [Shrunk(Advanced(eq_row(st0, st1, hv1), 1), 1) EXCEPT !["ST0"] = top],
               shift |-> 0] :
                st0 \in { 0, 1, 2, P - 2, P - 1 }, st1 \in { 0, 1, 2, P - 2, P - 1 },
                hv1 \in { "inverse", "zero", "one", "two" }, top \in { 0, 1, 2 } }
        \* split: a next row with any of five high and four low half words on
        \* top of a grown stack, the current ST0 being composed of the two or
        \* off by one, and HV0 holding the inverse of the difference of the
        \* high half word and the largest one (0 if there is none), 1 or 2.
        split_row(hi, lo, d, hv0) ==
            [RealRow(1, "Split", opcode("Push"), 0) EXCEPT
                !["ST0"] = FAdd(FAdd(FMul(16, hi), lo), d), !["ST1"] = 7,
                !["HV0"] = inverse_or(FSub(hi, 15), hv0)]
        split ==
            { [instruction |-> "Split",
               current |-> split_row(hi, lo, d, hv0),
               next |-> [Grown(Advanced(split_row(hi, lo, d, hv0), 1), lo) EXCEPT
                            !["ST1"] = hi],
               shift |-> 0] :
                hi \in { 0, 1, 14, 15, 16 }, lo \in { 0, 1, 15, 16 }, d \in { 0, 1 },
                hv0 \in { "inverse", "one", "two" } }
        \* divine_sibling: a node index in ST10, HV0 holding 0, 1 or 2, and a
        \* next row whose ST10 is the index less HV0 divided by 2 in the field,
        \* or half the index rounded down; the second pentuplet stays or is
        \* moved to the top.
        divine_sibling_row(st10, hv0) ==
            [RealRow(1, "DivineSibling", opcode("Push"), 0) EXCEPT
                !["ST5"] = 25, !["ST6"] = 26, !["ST7"] = 27, !["ST8"] = 28,
                !["ST9"] = 29, !["ST10"] = st10, !["HV0"] = hv0]
        sibling_row(row, st10, moved) ==
            IF moved
            THEN [row EXCEPT !["ST10"] = st10,
                             !["ST0"] = row["ST5"], !["ST1"] = row["ST6"],
                             !["ST2"] = row["ST7"], !["ST3"] = row["ST8"],
                             !["ST4"] = row["ST9"]]
            ELSE [row EXCEPT !["ST10"] = st10]
        divine_sibling ==
            { [instruction |-> "DivineSibling",
               current |-> divine_sibling_row(st10, hv0),
               next |-> sibling_row(Advanced(divine_sibling_row(st10, hv0), 1),
                                    IF halved = "field"
                                    THEN FMul(FSub(st10, hv0), FInverse(2))
                                    ELSE st10 \div 2,
                                    moved),
               shift |-> 0] :
                st10 \in { 0, 1, 2, 3, 4, 5, P - 2, P - 1 }, hv0 \in { 0, 1, 2 },
                halved \in { "field", "integer" }, moved \in BOOLEAN }
        \* sponge_init, sponge_absorb, sponge_squeeze: a stack of sixteen
        \* different elements and a next row one instruction later that is as
        \* the current row or is off in one place: a stack element, a pointer,
        \* the RAM value, the step of the instruction pointer or the running
        \* product of the op stack table.
        sponge_row(instruction) ==
            [RealRow(1, instruction, opcode("Push"), 0) EXCEPT
                !["ST0"] = 20, !["ST1"] = 21, !["ST2"] = 22, !["ST3"] = 23,
                !["ST4"] = 24, !["ST5"] = 25, !["ST6"] = 26, !["ST7"] = 27,
                !["ST8"] = 28, !["ST9"] = 29, !["ST10"] = 30]
        sponge ==
            { [instruction |-> instruction,
               current |-> sponge_row(instruction),
               next |-> IF place \in { "JSP", "RAMV" }
                        THEN [Advanced(sponge_row(instruction), 1) EXCEPT
                                ![place] = FAdd(@, 1)]
                        ELSE off(Advanced(sponge_row(instruction),
                                          IF place = "IP" THEN 2 ELSE 1), place),
               shift |-> IF place = "OpStackTablePermArg" THEN 1 ELSE 0] :
                instruction \in { "SpongeInit", "SpongeAbsorb", "SpongeSqueeze" },
                place \in stack \cup { "none", "IP", "JSP", "RAMV", "OpStackPointer",
                                       "OpStackTablePermArg" } }
        \* xinvert: an extension field element with coefficients 0, 1 or 2 on
        \* top of the stack, and a next row one instruction later with its
        \* inverse (if it has one) or any element with coefficients 0, 1 or
        \* -1 on top.
        xinvert_row(a) ==
            [RealRow(1, "XInvert", opcode("Push"), 0) EXCEPT
                !["ST0"] = a[1], !["ST1"] = a[2], !["ST2"] = a[3], !["ST3"] = 23]
        xinvert ==
            UNION { { [instruction |-> "XInvert",
                       current |-> xinvert_row(a),
                       next |-> [Advanced(xinvert_row(a), 1) EXCEPT
                                    !["ST0"] = b[1], !["ST1"] = b[2], !["ST2"] = b[3]],
                       shift |-> 0] :
                        b \in ({ 0, 1, P - 1 } \X { 0, 1, P - 1 } \X { 0, 1, P - 1 })
                              \cup (IF a = XZero THEN {} ELSE { XInverse(a) }) } :
                    a \in { 0, 1, 2 } \X { 0, 1, 2 } \X { 0, 1, 2 } }
    IN skiz \cup swap \cup eq \cup split \cup divine_sibling \cup sponge \cup xinvert

\* The arguments indicator_polynomial is called with, and the helper
\* variables of the row it is evaluated on: every index, and every
\* assignment of 0 and 1 to HV0 .. HV3.
IndicatorArguments ==
    [op : { "indicator_polynomial" }, index : 0 .. 15, hv : [0 .. 3 -> { 0, 1 }]]

\* The arguments factor_for_op_stack_table_running_product is called with:
\* a previous row or none, the previous row holding the opcode of an
\* instruction that grows, shrinks or keeps the op stack or a value that is
\* no opcode, and a current row that is a padding row or not.
FactorArguments ==
    LET previous_rows ==
            { [ZeroBaseRow EXCEPT !["CI"] = ci, !["IB1"] = ib1, !["CLK"] = 5,
                                  !["ST15"] = st15, !["OpStackPointer"] = 16] :
                ci \in { opcode("Push"), opcode("Pop"), opcode("Nop"), opcode("Halt"),
                         3, P - 2, P - 1 },
                ib1 \in { 0, 1 }, st15 \in { 0, 9 } }
        current_rows ==
            { [ZeroBaseRow EXCEPT !["IsPadding"] = is_padding, !["CLK"] = 6,
                                  !["ST15"] = st15, !["OpStackPointer"] = op_stack_pointer] :
                is_padding \in { 0, 1, 2 }, st15 \in { 0, 9 },
                op_stack_pointer \in { 16, P - 1 } }
    IN [op : { "factor_for_op_stack_table_running_product" },
        has_previous_row : BOOLEAN,
        previous_row : previous_rows, current_row : current_rows]

\* The rows one iteration of the loop of extend is run on: no previous row
\* or one that holds the opcode of any instruction or a value that is no
\* opcode, and a current row that is a padding row or not.
\* Then, for every instruction, a row executing it and the row one cycle
\* later, with the op stack as it was, grown or shrunk.
ExtendArguments ==
    LET previous_rows ==
            { [ZeroBaseRow EXCEPT !["CI"] = ci, !["CLK"] = 5, !["ST0"] = 6, !["ST1"] = 3] :
                ci \in { opcode_b(instruction) : instruction \in Instruction }
                        \cup { 3, P - 1 } }
        current_rows ==
            { [ZeroBaseRow EXCEPT !["IsPadding"] = is_padding, !["CLK"] = 6,
                                  !["CI"] = opcode_b("Halt"),
                                  !["ST0"] = st0, !["ST1"] = 2] :
                is_padding \in { 0, 1 }, st0 \in { 1, 5 } }
        executing(instruction) ==
            [RealRow(1, instruction, opcode("Push"), 0) EXCEPT
                !["NIA"] = 3, !["OpStackPointer"] = 17, !["HV0"] = 1]
        successors(row) ==
            { Advanced(row, 1), Grown(Advanced(row, 1), 9), Shrunk(Advanced(row, 1), 1) }
    IN [op : { "extend" }, has_previous_row : BOOLEAN,
        previous_row : previous_rows, current_row : current_rows]
       \cup UNION { { [op |-> "extend", has_previous_row |-> TRUE,
                       previous_row |-> executing(instruction),
                       current_row |-> [next EXCEPT !["IsPadding"] = is_padding]] :
                        next \in successors(executing(instruction)),
                        is_padding \in { 0, 1 } } :
                    instruction \in Instruction }

\* The row pairs the fused constraints are evaluated on, for every
\* instruction: the next row repeats the current row, or is the current row
\* one cycle later, or differs from it in one column, which for four of the
\* instructions is any column the constraints of padding rows read; it is a
\* padding row or not.  And row pairs whose current row holds binary
\* instruction bits that are the bits of no instruction, with a next row
\* that repeats the current row, follows it as after a nop, or differs from
\* it in the instruction pointer, the stack, the jump stack, the RAM and the
\* running product.
FusionArguments ==
    LET columns == { "IP", "CI", "NIA", "JSP", "JSO", "JSD", "OpStackPointer",
                     "RAMV", "RAMP", "CLK", "HV0", "OpStackTablePermArg" }
                   \cup { op_stack_column_by_index(i) : i \in 0 .. 15 }
        changes(instruction) ==
            { "none", "advanced" }
            \cup IF instruction \in { "Pop", "Push", "Nop", "Halt" } THEN columns
                 ELSE { "IP", "ST0", "RAMV", "OpStackTablePermArg" }
        current(instruction) ==
            [RealRow(1, instruction, opcode("Push"), 0) EXCEPT
                !["NIA"] = 3, !["OpStackPointer"] = 17, !["HV0"] = 1]
        next(row, change) ==
            IF change \in { "none", "OpStackTablePermArg" } THEN row
            ELSE IF change = "advanced" THEN Advanced(row, 1)
            ELSE [row EXCEPT ![change] = FAdd(@, 1)]
    IN UNION { { [op |-> "fusion", instruction |-> instruction,
                  current |-> current(instruction),
                  next |-> [next(current(instruction), change) EXCEPT
                                !["IsPadding"] = is_padding],
                  shift |-> IF change = "OpStackTablePermArg" THEN 1 ELSE 0] :
                    change \in changes(instruction), is_padding \in { 0, 1 } } :
               instruction \in Instruction }
       \cup { [op |-> "fusion_of_no_instruction", instruction |-> "Nop",
               current |-> WithInstructionBits(current("Nop"), pattern),
               next |-> IF change = "none" THEN WithInstructionBits(current("Nop"), pattern)
                        ELSE IF change = "advanced" THEN Advanced(current("Nop"), 1)
                        ELSE Grown([Advanced(current("Halt"), 3) EXCEPT
                                        !["JSP"] = 1, !["RAMV"] = 5], 9),
               shift |-> IF change = "all" THEN 1 ELSE 0] :
                    pattern \in { n \in 0 .. 255 :
                                    \A instruction \in Instruction : opcode(instruction) # n },
                    change \in { "none", "advanced", "all" } }

InitInstruction ==
    /\ IdleStream
    /\ args \in { [op |-> "transition_constraints_for_instruction",
                   instruction |-> a.instruction, current |-> a.current,
                   next |-> a.next, shift |-> a.shift] : a \in InstructionFrames }
                \cup IndicatorArguments \cup FactorArguments \cup ExtendArguments
                \cup FusionArguments
    /\ result = [done |-> FALSE, value |-> FALSE]
    /\ challenges \in { DerivedChallenges(seed, ProgramDigest) : seed \in ChallengeSeeds }
    /\ pc = "idle"
    /\ processor_table = << >>
    /\ processor_table_len = 0
    /\ table_before = << >>
    /\ padding_template = NoRow
    /\ rows_assigned = {}
    /\ ext_table = << >>
    /\ running = << >>
    /\ row_idx = 0
    /\ curr = << >>
    /\ walk = << >>

\* The transition constraints of the instruction are evaluated on the row
\* pair: the pair is accepted when all of them are zero.
EvaluateInstruction ==
    /\ args.op = "transition_constraints_for_instruction"
    /\ ~result.done
    /\ result' =
        [done |-> TRUE,
         value |->
            /\ ~ExtendPanics(NoRow, args.current, challenges)
            /\ ~ExtendPanics(args.current, args.next, challenges)
            /\ AllZero(get_transition_constraints_for_instruction(
                    InstructionFrame(args.current, args.next, args.shift, challenges),
                    args.instruction))]
    /\ UNCHANGED << traceVars, args, airVars, streamVars >>

\* The frame whose current row holds the given helper variables.
FrameOfHelperVariables(hv) ==
    [ZeroFrame EXCEPT !.cb["HV0"] = hv[0], !.cb["HV1"] = hv[1],
                      !.cb["HV2"] = hv[2], !.cb["HV3"] = hv[3]]

\* The indicator polynomial is built and evaluated.
EvaluateIndicator ==
    /\ args.op = "indicator_polynomial"
    /\ ~result.done
    /\ result' = [done |-> TRUE,
                  value |-> indicator_polynomial(FrameOfHelperVariables(args.hv),
                                                 args.index)]
    /\ UNCHANGED << traceVars, args, airVars, streamVars >>

\* The factor of the running product of the op stack table is computed for
\* the row.
EvaluateFactor ==
    /\ args.op = "factor_for_op_stack_table_running_product"
    /\ ~result.done
    /\ LET maybe_previous_row == IF args.has_previous_row THEN args.previous_row ELSE NoRow
           panicked == FactorPanics(maybe_previous_row, args.current_row)
       IN result' =
            [done |-> TRUE,
             panicked |-> panicked,
             value |-> IF panicked THEN XZero
                       ELSE factor_for_op_stack_table_running_product(
                                maybe_previous_row, args.current_row, challenges)]
    /\ UNCHANGED << traceVars, args, airVars, streamVars >>

\* One iteration of the loop of extend is run on the rows, from the
\* initial values of the accumulators.
EvaluateExtend ==
    /\ args.op = "extend"
    /\ ~result.done
    /\ LET previous_row == IF args.has_previous_row THEN args.previous_row ELSE NoRow
           panicked == ExtendPanics(previous_row, args.current_row, challenges)
       IN result' =
            [done |-> TRUE,
             panicked |-> panicked,
             value |-> IF panicked THEN InitialAccumulators
                       ELSE ExtendAccumulators(previous_row, args.current_row, challenges,
                                               InitialAccumulators)]
    /\ UNCHANGED << traceVars, args, airVars, streamVars >>

\* The transition constraints of all instructions are fused with the
\* deselectors, and the result with the constraints of padding rows; the
\* constraints of the instruction of the current row are evaluated as well,
\* and so is the constraint of the log derivative with the U32 table.  The
\* shift of the row pair moves the running product of the op stack table
\* and the running sum of the U32 lookup of the next row.
EvaluateFusion ==
    /\ args.op \in { "fusion", "fusion_of_no_instruction" }
    /\ ~result.done
    /\ LET ext == ExtensionRow(InitialAccumulators)
           f == [cb |-> args.current, ce |-> ext, nb |-> args.next,
                 ne |-> [ext EXCEPT
                            !["OpStackTablePermArg"] = XAdd(@, XLift(args.shift)),
                            !["U32LookupClientLogDerivative"] = XAdd(@, XLift(args.shift))],
                 ch |-> challenges]
           fused == combine_instruction_constraints_with_deselectors(f)
       IN result' =
            [done |-> TRUE,
             value |-> FALSE,
             u32 |-> log_derivative_with_u32_table_updates_correctly(f),
             own |-> get_transition_constraints_for_instruction(f, args.instruction),
             fused |-> fused,
             padded |-> combine_transition_constraints_with_padding_constraints(f, fused)]
    /\ UNCHANGED << traceVars, args, airVars, streamVars >>

NextInstruction ==
    \/ EvaluateInstruction
    \/ EvaluateIndicator
    \/ EvaluateFactor
    \/ EvaluateExtend
    \/ EvaluateFusion

SpecInstruction == InitInstruction /\ [][NextInstruction]_vars

-----------------------------------------------------------------------------
(* Properties of pad_trace                                                 *)

\* pad_trace has returned.
PadReturned == pc \in { "padded", "extend", "extended" }


\* C2 as stated: after pad_trace with 0 < len_real < n_rows, every row
\* r >= len_real equals row len_real - 1 before the call in every column,
\* except that IsPadding is 1, the lookup multiplicity is 0 and CLK is r.
C2_PaddingRowsCloneLastRealRow ==
    PadReturned /\ 0 < processor_table_len /\ processor_table_len < Len(processor_table) =>
        \A r \in processor_table_len .. (Len(processor_table) - 1) :
            Row(processor_table, r) =
                [Row(table_before, processor_table_len - 1) EXCEPT
                    !["IsPadding"] = 1,
                    !["ClockJumpDifferenceLookupMultiplicity"] = 0,
                    !["CLK"] = BNew(r)]

\* C2, amended: as above, except that the lookup multiplicity of a padding
\* row is 0 in every row but row 1 (a padding row only when len_real = 1),
\* where it is 2 * (n_rows - len_real).
C2_PaddingRowsCloneLastRealRowButRowOne ==
    PadReturned /\ 0 < processor_table_len /\ processor_table_len < Len(processor_table) =>
        \A r \in processor_table_len .. (Len(processor_table) - 1) :
            Row(processor_table, r) =
                [Row(table_before, processor_table_len - 1) EXCEPT
                    !["IsPadding"] = 1,
                    !["ClockJumpDifferenceLookupMultiplicity"] =
                        IF r = 1 THEN BNew(2 * (Len(processor_table) - processor_table_len)) ELSE 0,
                    !["CLK"] = BNew(r)]

\* A table of three rows with one real row has been padded: row 1 is a
\* padding row with multiplicity 4, row 2 one with multiplicity 0.
C2_Witness ==
    /\ PadReturned
    /\ processor_table_len = 1
    /\ Len(processor_table) = 3
    /\ Row(processor_table, 1)["IsPadding"] = 1
    /\ Row(processor_table, 1)["ClockJumpDifferenceLookupMultiplicity"] = 4
    /\ Row(processor_table, 2)["ClockJumpDifferenceLookupMultiplicity"] = 0
    /\ Row(processor_table, 2)["CI"] = Row(table_before, 0)["CI"]

\* C3: for n_rows >= 2 and 0 < len_real <= n_rows, pad_trace increases the
\* lookup multiplicity of row 1 by exactly 2 * (n_rows - len_real): from its
\* value before the call when row 1 is a real row, from 0 when row 1 is a
\* padding row.
C3_RowOneMultiplicityIncrement ==
    (/\ PadReturned
     /\ Len(processor_table) >= 2
     /\ 0 < processor_table_len
     /\ processor_table_len <= Len(processor_table)) =>
        Row(processor_table, 1)["ClockJumpDifferenceLookupMultiplicity"] =
            FAdd(IF processor_table_len >= 2
                 THEN Row(table_before, 1)["ClockJumpDifferenceLookupMultiplicity"]
                 ELSE 0,
                 BNew(2 * (Len(processor_table) - processor_table_len)))

\* Row 1 was a real row with multiplicity 1; one padding row has raised it to 3.
C3_Witness ==
    /\ PadReturned
    /\ Len(processor_table) = 3
    /\ processor_table_len = 2
    /\ Row(table_before, 1)["ClockJumpDifferenceLookupMultiplicity"] = 1
    /\ Row(processor_table, 1)["ClockJumpDifferenceLookupMultiplicity"] = 3

\* C4: pad_trace called with len_real = 0 fails, and no cell of the table
\* has been modified when it does.
C4_EmptyTraceFailsUntouched ==
    processor_table_len = 0 =>
        /\ pc \in { "pad_trace", "panic" }
        /\ processor_table = table_before

\* The call with len_real = 0 on a table with stale rows has failed.
C4_Witness ==
    /\ processor_table_len = 0
    /\ pc = "panic"
    /\ Len(processor_table) = 2
    /\ Row(processor_table, 1)["CLK"] = 7

\* C5: after pad_trace with len_real >= 1 every row satisfies the
\* consistency constraint IsPadding * (CLK - 1) * multiplicity = 0, and every
\* padding row other than the row with CLK = 1 has multiplicity 0.
C5_PaddedTableSatisfiesMultiplicityConstraint ==
    PadReturned /\ processor_table_len >= 1 =>
        \A r \in 0 .. (Len(processor_table) - 1) :
            /\ consistency_constraints(Row(processor_table, r))[11] = XZero
            /\ (r >= processor_table_len /\ Row(processor_table, r)["CLK"] # 1 =>
                    Row(processor_table, r)["ClockJumpDifferenceLookupMultiplicity"] = 0)

\* The exempt case: row 1 is a padding row and has a non-zero multiplicity.
C5_Witness ==
    /\ PadReturned
    /\ processor_table_len = 1
    /\ Row(processor_table, 1)["IsPadding"] = 1
    /\ Row(processor_table, 1)["CLK"] = 1
    /\ Row(processor_table, 1)["ClockJumpDifferenceLookupMultiplicity"] # 0

\* C6: in the table pad_trace produces, every pair of consecutive rows has
\* CLK' = CLK + 1, so that the constraint clk_increases_by_1, which is not
\* fused with any instruction or padding selector, is 0 on every pair.
C6_ClkIncreasesByOneAfterPadding ==
    PadReturned =>
        \A r \in 0 .. (Len(processor_table) - 2) :
            /\ Row(processor_table, r + 1)["CLK"] = Row(processor_table, r)["CLK"] + 1
            /\ instruction_independent_constraints(
                    Row(processor_table, r), Row(processor_table, r + 1))[1] = XZero

\* A padded table with a real-real, a real-padding and (in another table) a
\* padding-padding pair: here two real rows and one padding row.
C6_Witness ==
    /\ PadReturned
    /\ Len(processor_table) = 3
    /\ processor_table_len = 2
    /\ Row(processor_table, 1)["IsPadding"] = 0
    /\ Row(processor_table, 2)["IsPadding"] = 1
    /\ Row(processor_table, 2)["CLK"] = 2

-----------------------------------------------------------------------------
(* Properties of the AIR                                                   *)

\* The pair of rows checked last.
LastPair == Frame(walk.prev, curr, challenges)

\* C7: in a sequence of rows that satisfy the consistency constraints and
\* whose consecutive pairs satisfy the transition constraints, IsPadding is
\* 0 or 1 in every row, and a row with IsPadding = 1 is never followed by a
\* row with IsPadding = 0.
C7_IsPaddingIsBinaryAndStaysSet ==
    walk.consistent =>
        /\ curr.b["IsPadding"] \in { 0, 1 }
        /\ walk.prev # NoRow /\ walk.prev.b["IsPadding"] = 1 => curr.b["IsPadding"] = 1

\* Three rows with IsPadding 0, 1, 1: the steps 0 -> 1 and 1 -> 1 were
\* accepted.
C7_Witness ==
    /\ walk.consistent
    /\ walk.rows = 3
    /\ walk.prev.b["IsPadding"] = 1
    /\ walk.prev.b["CLK"] = 1
    /\ curr.b["IsPadding"] = 1

\* Stack-shrinking instructions.
ShrinkingInstructions == { i \in Instruction : op_stack_size_influence(i) = 0 - 1 }

\* The constraint vector of the instruction has a constraint with the given
\* value on the frame.
HasConstraintWithValue(f, instruction, value) ==
    LET constraints == get_transition_constraints_for_instruction(f, instruction)
    IN \E idx \in DOMAIN constraints : constraints[idx] = XLift(value)

\* C8: in a sequence of rows whose first row satisfies the initial
\* constraints and whose consecutive pairs satisfy the transition constraints,
\* the instruction bits being those of an instruction, OpStackPointer is at
\* least 16 in every row and changes by -1, 0 or +1 from row to row.  Every
\* instruction's constraints contain OpStackPointer' - OpStackPointer - d = 0
\* with d the instruction's influence on the stack size, -1, 0 or +1, and
\* every stack-shrinking instruction's constraints contain
\* (OpStackPointer - 16) * HV0 - 1 = 0, which no HV0 solves when
\* OpStackPointer is 16.
C8_OpStackPointerIsAtLeast16 ==
    /\ curr.b["OpStackPointer"] >= 16
    /\ curr.b["OpStackPointer"] <= 16 + MaxAirRows
    /\ walk.prev # NoRow =>
        /\ FSub(curr.b["OpStackPointer"], walk.prev.b["OpStackPointer"])
                \in { FSub(0, 1), 0, 1 }
        /\ \A instruction \in Instruction, change \in { FSub(0, 2), FSub(0, 1), 0, 1, 2 } :
                /\ op_stack_size_influence(instruction) \in { 0 - 1, 0, 1 }
                /\ HasConstraintWithValue(
                        [LastPair EXCEPT !.nb["OpStackPointer"] =
                            FAdd(walk.prev.b["OpStackPointer"], change)],
                        instruction,
                        FSub(change, BNew(op_stack_size_influence(instruction))))
        /\ \A instruction \in ShrinkingInstructions, hv0 \in { 0, 1, 2 } :
                /\ HasConstraintWithValue(
                        [LastPair EXCEPT !.cb["HV0"] = hv0], instruction,
                        FSub(FMul(FSub(walk.prev.b["OpStackPointer"], 16), hv0), 1))
                /\ walk.prev.b["OpStackPointer"] = 16 =>
                        ~AllZero(get_transition_constraints_for_instruction(
                                    [LastPair EXCEPT !.cb["HV0"] = hv0], instruction))

\* A row with OpStackPointer = 17 executed pop and was followed by a row
\* with OpStackPointer = 16 that is no padding row.
C8_Witness ==
    /\ walk.prev # NoRow
    /\ walk.prev.b["OpStackPointer"] = 17
    /\ walk.prev.b["CI"] = opcode_b("Pop")
    /\ curr.b["OpStackPointer"] = 16
    /\ curr.b["IsPadding"] = 0

-----------------------------------------------------------------------------
(* Properties of extend and of the initial constraints                     *)

\* The first row of the table satisfies the initial constraints on base
\* columns.
FirstRowSatisfiesBaseInitialConstraints ==
    AllZero(SubSeq(initial_constraints(Row(processor_table, 0), ext_table[1], challenges),
                   1, 20))

ColumnsInitiallyZero ==
    { "CLK", "IP", "JSP", "JSO", "JSD", "ST0", "ST1", "ST2", "ST3", "ST4", "ST5",
      "ST6", "ST7", "ST8", "ST9", "ST10", "RAMP", "PreviousInstruction" }

\* The digest columns of the row hold the program digest.
CarriesProgramDigest(row) ==
    << row["ST11"], row["ST12"], row["ST13"], row["ST14"], row["ST15"] >> = ProgramDigest

\* C10 as stated: every first row accepted by the initial constraints has all
\* base columns equal to 0 except OpStackPointer, which is 16, and
\* ST11..ST15, which carry the program digest.
C10_AcceptedFirstRowIsAllZero ==
    (result.done /\ result.value) =>
        /\ \A c \in ProcessorBaseTableColumn \
                        { "OpStackPointer", "ST11", "ST12", "ST13", "ST14", "ST15" } :
                args.row[c] = 0
        /\ args.row["OpStackPointer"] = 16
        /\ CarriesProgramDigest(args.row)

\* C10 as amended: every first row accepted by the initial constraints has
\* CLK, IP, JSP, JSO, JSD, ST0..ST10, RAMP and PreviousInstruction equal to 0,
\* OpStackPointer equal to 16 and the program digest in ST11..ST15; the other
\* base columns, CI among them, need not be 0.
C10_AcceptedFirstRowIsZeroWhereConstrained ==
    (result.done /\ result.value) =>
        /\ \A c \in ColumnsInitiallyZero : args.row[c] = 0
        /\ args.row["OpStackPointer"] = 16
        /\ CarriesProgramDigest(args.row)

\* An accepted first row that holds push: CI and NIA are not 0.
C10_Witness ==
    /\ result.done
    /\ result.value
    /\ args.row["CI"] = opcode_b("Push")
    /\ args.row["NIA"] = 5


-----------------------------------------------------------------------------
(* Properties of the transition constraints of single instructions         *)

\* The row pair was accepted by the transition constraints of the
\* instruction.
Accepted(instruction) ==
    /\ args.op = "transition_constraints_for_instruction"
    /\ args.instruction = instruction
    /\ result.done
    /\ result.value

\* The step of the instruction pointer in the row pair.
IpStepIs(k) == args.next["IP"] = FAdd(args.current["IP"], k)

\* C11: on every row pair accepted by the transition constraints of skiz,
\* the instruction pointer grows by 1 if ST0 is not 0, by 2 if ST0 is 0 and
\* HV2 is 0, and by 3 if ST0 is 0 and HV2 is 1; no other step is accepted.
C11_SkizAdvancesInstructionPointer ==
    Accepted("Skiz") =>
        /\ args.current["ST0"] # 0 => IpStepIs(1)
        /\ args.current["ST0"] = 0 /\ args.current["HV2"] = 0 => IpStepIs(2)
        /\ args.current["ST0"] = 0 /\ args.current["HV2"] = 1 => IpStepIs(3)
        /\ \/ args.current["ST0"] # 0
           \/ args.current["ST0"] = 0 /\ args.current["HV2"] \in { 0, 1 }

\* A pair with ST0 = 0 and a next instruction that takes an argument is
\* accepted with the instruction pointer grown by 3.
C11_Witness ==
    /\ Accepted("Skiz")
    /\ args.current["ST0"] = 0
    /\ args.current["HV2"] = 1
    /\ IpStepIs(3)

\* The frame of the row pair the constraints were evaluated on.
EvaluatedFrame == InstructionFrame(args.current, args.next, args.shift, challenges)

\* C12: on every row pair accepted by the transition constraints of swap
\* with NIA = n, n is in 1 .. 15, ST_n' = ST0, ST0' = ST_n, every other
\* stack element, the op stack pointer and the running product of the op
\* stack table are unchanged, and the instruction pointer grows by 2.
C12_SwapExchangesSt0AndStN ==
    Accepted("Swap") =>
        LET n == args.current["NIA"]
            st(k) == op_stack_column_by_index(k)
        IN /\ n \in 1 .. 15
           /\ args.next[st(n)] = args.current["ST0"]
           /\ args.next["ST0"] = args.current[st(n)]
           /\ \A j \in (1 .. 15) \ { n } : args.next[st(j)] = args.current[st(j)]
           /\ args.next["OpStackPointer"] = args.current["OpStackPointer"]
           /\ EvaluatedFrame.ne["OpStackTablePermArg"]
                = EvaluatedFrame.ce["OpStackTablePermArg"]
           /\ IpStepIs(2)

\* A pair of swap 15 is accepted.
C12_Witness ==
    /\ Accepted("Swap")
    /\ args.current["NIA"] = 15
    /\ args.next["ST15"] = args.current["ST0"]
    /\ args.next["ST0"] = args.current["ST15"]

\* C13: on every row pair accepted by the transition constraints of eq, the
\* next ST0 is 1 and HV1 is 0 if ST0 = ST1, and the next ST0 is 0 and HV1 is
\* the inverse of ST1 - ST0 otherwise; and for every ST0 and ST1 there is a
\* value of HV1 with which the pair with the right next ST0 is accepted.
C13_EqComparesTopElements ==
    args.op = "transition_constraints_for_instruction" /\ args.instruction = "Eq"
        /\ result.done =>
        LET st0 == args.current["ST0"]
            st1 == args.current["ST1"]
            f == EvaluatedFrame
        IN /\ result.value /\ st0 = st1 =>
                args.next["ST0"] = 1 /\ args.current["HV1"] = 0
           /\ result.value /\ st0 # st1 =>
                /\ args.next["ST0"] = 0
                /\ FMul(args.current["HV1"], FSub(st1, st0)) = 1
           /\ \E hv1 \in 0 .. P - 1 :
                AllZero(get_transition_constraints_for_instruction(
                    [f EXCEPT !.cb["HV1"] = hv1,
                              !.nb["ST0"] = IF st0 = st1 THEN 1 ELSE 0], "Eq"))

\* A pair of different top elements is accepted with 0 as the new top.
C13_Witness ==
    /\ Accepted("Eq")
    /\ args.current["ST0"] = P - 1
    /\ args.current["ST1"] = 2
    /\ args.next["ST0"] = 0

C15_DivineSiblingHalvesNodeIndex ==
    Accepted("DivineSibling") =>
        /\ args.current["HV0"] = args.current["ST10"] % 2
        /\ args.next["ST10"] = args.current["ST10"] \div 2

-----------------------------------------------------------------------------
(* Properties of sequences of rows                                         *)

\* The row holds instruction halt, with the instruction bits of halt.
IsHaltRow(row) ==
    /\ row["CI"] = opcode("Halt")
    /\ \A k \in 0 .. 7 : row[IBColumn(k)] = ib("Halt", k)

\* C16: in a sequence of rows that satisfy the consistency constraints and
\* whose consecutive pairs satisfy the transition constraints, the row that
\* follows a row of instruction halt is a row of instruction halt, be it a
\* padding row or not; hence so is every later row.
C16_HaltIsFollowedByHalt ==
    [][ /\ walk'.rows = walk.rows + 1
        /\ walk'.consistent
        /\ IsHaltRow(curr.b)
        => IsHaltRow(curr'.b) ]_vars

\* A row of halt is followed by a second one that is no padding row and by
\* a third one that is a padding row.
C16_Witness ==
    /\ pc = "air"
    /\ walk.rows = 3
    /\ walk.consistent
    /\ IsHaltRow(walk.prev.b)
    /\ walk.prev.b["IsPadding"] = 0
    /\ walk.prev.b["CLK"] = 1
    /\ IsHaltRow(curr.b)
    /\ curr.b["IsPadding"] = 1

-----------------------------------------------------------------------------
(* Properties of the indicator polynomials                                 *)

\* C17: for every n in 0 .. 15 and every assignment of bits to HV0 .. HV3,
\* indicator_polynomial(n) is 1 if HV0 + 2 * HV1 + 4 * HV2 + 8 * HV3 = n and
\* 0 otherwise; exactly one of the 16 indicator polynomials is 1.
C17_IndicatorPolynomialsAreMinterms ==
    args.op = "indicator_polynomial" /\ result.done =>
        LET hv == args.hv
            f == FrameOfHelperVariables(hv)
        IN /\ result.value =
                IF hv[0] + 2 * hv[1] + 4 * hv[2] + 8 * hv[3] = args.index THEN 1 ELSE 0
           /\ Cardinality({ n \in 0 .. 15 : indicator_polynomial(f, n) = 1 }) = 1
           /\ \A n \in 0 .. 15 : indicator_polynomial(f, n) \in { 0, 1 }

\* The indicator polynomial of 10 is 1 on the bits of 10.
C17_Witness ==
    /\ args.op = "indicator_polynomial"
    /\ result.done
    /\ args.index = 10
    /\ args.hv = [i \in 0 .. 3 |-> IF i \in { 1, 3 } THEN 1 ELSE 0]
    /\ result.value = 1

-----------------------------------------------------------------------------
(* Properties of factor_for_op_stack_table_running_product                 *)

\* C18: factor_for_op_stack_table_running_product returns without panic
\* whatever the previous row, the current row and the challenges hold, and
\* returns 1 if the current row has IsPadding = 1, if there is no previous
\* row, or if CI of the previous row is the opcode of no instruction.
C18_FactorNeverPanicsAndDefaultsToOne ==
    args.op = "factor_for_op_stack_table_running_product" /\ result.done =>
        /\ ~result.panicked
        /\ \/ args.current_row["IsPadding"] = 1
           \/ ~args.has_previous_row
           \/ InstructionsWithOpcode(args.previous_row["CI"]) = {}
           => result.value = XOne

\* The factor of a row that follows a row whose CI is no opcode is 1.
C18_Witness ==
    /\ args.op = "factor_for_op_stack_table_running_product"
    /\ result.done
    /\ args.has_previous_row
    /\ args.previous_row["CI"] = 3
    /\ args.current_row["IsPadding"] = 0
    /\ result.value = XOne

-----------------------------------------------------------------------------
(* Properties of the extension columns                                     *)

\* The rows extend has written so far.
ExtendedRows == IF pc \in { "extend", "extended", "panic" } THEN 0 .. row_idx - 1 ELSE {}

\* The frame of rows r and r + 1 of the extended table.
TableFrame(r) ==
    [cb |-> Row(processor_table, r), ce |-> Row(ext_table, r),
     nb |-> Row(processor_table, r + 1), ne |-> Row(ext_table, r + 1),
     ch |-> challenges]

\* RamIndeterminate less CLK, RAMP, RAMV and PreviousInstruction of the row,
\* weighted by their challenges.
RamFactor(row) ==
    XSub(challenges["RamIndeterminate"],
         XAdd(XAdd(XScale(challenges["RamClkWeight"], row["CLK"]),
                   XScale(challenges["RamRampWeight"], row["RAMP"])),
              XAdd(XScale(challenges["RamRamvWeight"], row["RAMV"]),
                   XScale(challenges["RamPreviousInstructionWeight"],
                          row["PreviousInstruction"]))))

\* JumpStackIndeterminate less CLK, CI, JSP, JSO and JSD of the row,
\* weighted by their challenges.
JumpStackFactor(row) ==
    XSub(challenges["JumpStackIndeterminate"],
         XAdd(XAdd(XAdd(XScale(challenges["JumpStackClkWeight"], row["CLK"]),
                        XScale(challenges["JumpStackCiWeight"], row["CI"])),
                   XAdd(XScale(challenges["JumpStackJspWeight"], row["JSP"]),
                        XScale(challenges["JumpStackJsoWeight"], row["JSO"]))),
              XScale(challenges["JumpStackJsdWeight"], row["JSD"])))

\* C19: in every row r, extend writes to RamTablePermArg the product of the
\* RAM factors of rows 0 .. r and to JumpStackTablePermArg the product of
\* the jump stack factors of rows 0 .. r, padding rows included; consecutive
\* rows satisfy the transition constraints of the two running products.
C19_RunningProductsAbsorbEveryRow ==
    \A r \in ExtendedRows :
        /\ Row(ext_table, r)["RamTablePermArg"]
            = XProduct([i \in 1 .. r + 1 |-> RamFactor(processor_table[i])])
        /\ Row(ext_table, r)["JumpStackTablePermArg"]
            = XProduct([i \in 1 .. r + 1 |-> JumpStackFactor(processor_table[i])])
        /\ r >= 1 =>
            /\ running_product_for_ram_table_updates_correctly(TableFrame(r - 1)) = XZero
            /\ running_product_for_jump_stack_table_updates_correctly(TableFrame(r - 1))
                = XZero

\* A table of three rows, the last two of them padding rows, is extended,
\* and the running product of the RAM table changes in the last row.
C19_Witness ==
    /\ pc = "extended"
    /\ Len(processor_table) = 3
    /\ Row(processor_table, 1)["IsPadding"] = 1
    /\ Row(processor_table, 2)["IsPadding"] = 1
    /\ Row(ext_table, 2)["RamTablePermArg"] # Row(ext_table, 1)["RamTablePermArg"]

\* The term of the instruction lookup of the row: the inverse of
\* InstructionLookupIndeterminate less IP, CI and NIA weighted by their
\* challenges; nothing for a padding row.
InstructionLookupTerm(row) ==
    IF row["IsPadding"] = 1 THEN XZero
    ELSE XInverse(XSub(challenges["InstructionLookupIndeterminate"],
                       XAdd(XAdd(XScale(challenges["ProgramAddressWeight"], row["IP"]),
                                 XScale(challenges["ProgramInstructionWeight"], row["CI"])),
                            XScale(challenges["ProgramNextInstructionWeight"],
                                   row["NIA"]))))

\* C20: extend adds to InstructionLookupClientLogDerivative one term for
\* every row with IsPadding = 0 and nothing for a row with IsPadding = 1;
\* on a padded trace the column is constant over the padding rows, and its
\* last value is the sum over the rows of the real trace.
C20_InstructionLookupSkipsPaddingRows ==
    /\ \A r \in ExtendedRows :
        /\ Row(ext_table, r)["InstructionLookupClientLogDerivative"]
            = XSum([i \in 1 .. r + 1 |-> InstructionLookupTerm(processor_table[i])])
        /\ r >= 1 /\ Row(processor_table, r)["IsPadding"] = 1 =>
            Row(ext_table, r)["InstructionLookupClientLogDerivative"]
                = Row(ext_table, r - 1)["InstructionLookupClientLogDerivative"]
    /\ pc = "extended" =>
        Row(ext_table, Len(processor_table) - 1)["InstructionLookupClientLogDerivative"]
            = XSum([i \in 1 .. processor_table_len |->
                        InstructionLookupTerm(table_before[i])])

\* A table of one real row and two padding rows is extended: the column
\* holds the term of the real row in all three rows.
C20_Witness ==
    /\ pc = "extended"
    /\ Len(processor_table) = 3
    /\ processor_table_len = 1
    /\ Row(processor_table, 2)["IsPadding"] = 1
    /\ Row(ext_table, 0)["InstructionLookupClientLogDerivative"] # XZero
    /\ Row(ext_table, 2)["InstructionLookupClientLogDerivative"]
        = Row(ext_table, 0)["InstructionLookupClientLogDerivative"]

\* The inverse term of a lookup in the U32 table: of the operands, the
\* instruction and, where there is one, the result.
U32Term(lhs, rhs, instruction, res) ==
    XInverse(XSub(challenges["U32Indeterminate"],
                  XAdd(XAdd(XScale(challenges["U32LhsWeight"], lhs),
                            XScale(challenges["U32RhsWeight"], rhs)),
                       XAdd(XScale(challenges["U32CiWeight"], opcode_b(instruction)),
                            XScale(challenges["U32ResultWeight"], res)))))

\* The instruction of the previous row of the iteration, "none" if there is
\* no previous row or its CI is no opcode.
PreviousInstructionOfIteration ==
    IF args.has_previous_row /\ InstructionsWithOpcode(args.previous_row["CI"]) # {}
    THEN CHOOSE i \in InstructionsWithOpcode(args.previous_row["CI"]) : TRUE
    ELSE "none"

\* C21: an iteration of extend adds to U32LookupClientLogDerivative one
\* inverse term if CI of the previous row is Split, Lt, And, Pow, Xor,
\* Log2Floor or PopCount, two inverse terms, of the form of Lt with result 1
\* and of the form of Split, if it is DivMod, and nothing if it is any other
\* value or if there is no previous row.
C21_U32LookupTermsOfPreviousInstruction ==
    args.op = "extend" /\ result.done /\ ~result.panicked =>
        LET previous == args.previous_row
            current == args.current_row
            j == PreviousInstructionOfIteration
            added == XSub(result.value.u32_table_running_sum_log_derivative,
                          InitialAccumulators.u32_table_running_sum_log_derivative)
            terms == Len(U32CompressedRows(
                            IF args.has_previous_row THEN previous ELSE NoRow,
                            current, challenges))
        IN CASE j = "Split" ->
                    /\ terms = 1
                    /\ added = U32Term(current["ST0"], current["ST1"], "Split", 0)
             [] j \in { "Lt", "And", "Pow" } ->
                    /\ terms = 1
                    /\ added = U32Term(previous["ST0"], previous["ST1"], j, current["ST0"])
             [] j = "Xor" ->
                    /\ terms = 1
                    /\ added = U32Term(previous["ST0"], previous["ST1"], "And",
                                       FMul(FSub(FAdd(previous["ST0"], previous["ST1"]),
                                                 current["ST0"]), FInverse(2)))
             [] j \in { "Log2Floor", "PopCount" } ->
                    /\ terms = 1
                    /\ added = U32Term(previous["ST0"], 0, j, current["ST0"])
             [] j = "DivMod" ->
                    /\ terms = 2
                    /\ added = XAdd(U32Term(current["ST0"], previous["ST1"], "Lt", 1),
                                    U32Term(previous["ST0"], current["ST1"], "Split", 0))
             [] OTHER -> terms = 0 /\ added = XZero

\* The iteration on a row that follows div_mod adds two terms.
C21_Witness ==
    /\ args.op = "extend"
    /\ result.done
    /\ ~result.panicked
    /\ PreviousInstructionOfIteration = "DivMod"
    /\ result.value.u32_table_running_sum_log_derivative # XZero

-----------------------------------------------------------------------------
(* The previous instruction in padded tables                               *)

\* pad_trace has returned from a call on a table with a real trace.
PaddedRealTrace ==
    /\ PadReturned
    /\ 0 < processor_table_len
    /\ processor_table_len <= Len(processor_table)

\* C22: in the table pad_trace produces from a real trace whose rows hold
\* the instruction of the row before them as PreviousInstruction (0 in row
\* 0), every row r >= 1, padding rows included, has PreviousInstruction
\* equal to CI of row r - 1.
C22_PreviousInstructionIsCiOfPreviousRow ==
    PaddedRealTrace =>
        \A r \in 1 .. Len(processor_table) - 1 :
            Row(processor_table, r)["PreviousInstruction"] = Row(processor_table, r - 1)["CI"]

\* C22, amended: every real row r >= 1 has PreviousInstruction equal to CI
\* of row r - 1; every padding row has the PreviousInstruction of the last
\* real row; and the constraint previous_instruction_is_copied_correctly,
\* which is switched off where the next row is a padding row, holds on all
\* consecutive rows.
C22_PreviousInstructionIsCopiedInRealRows ==
    PaddedRealTrace =>
        \A r \in 1 .. Len(processor_table) - 1 :
            /\ r < processor_table_len =>
                Row(processor_table, r)["PreviousInstruction"]
                    = Row(processor_table, r - 1)["CI"]
            /\ r >= processor_table_len =>
                Row(processor_table, r)["PreviousInstruction"]
                    = Row(table_before, processor_table_len - 1)["PreviousInstruction"]
            /\ previous_instruction_is_copied_correctly(
                    Row(processor_table, r - 1), Row(processor_table, r)) = 0

\* A real trace of push and halt is padded by one row: the padding row
\* follows a row of halt and holds push as its previous instruction.
C22_Witness ==
    /\ PaddedRealTrace
    /\ processor_table_len = 2
    /\ Len(processor_table) = 3
    /\ Row(processor_table, 0)["CI"] = opcode_b("Push")
    /\ Row(processor_table, 1)["CI"] = opcode_b("Halt")
    /\ Row(processor_table, 2)["IsPadding"] = 1
    /\ Row(processor_table, 2)["PreviousInstruction"] = opcode_b("Push")


-----------------------------------------------------------------------------
(* The proof stream of src/triton-vm/src/proof_stream.rs                   *)
(*                                                                         *)
(* The sponge, the proof items and the encoding of field-element           *)
(* sequences belong to other crates and modules; they are modelled by a    *)
(* sponge of rate 2 and capacity 1 over the field, four kinds of proof     *)
(* items and a length-prefixed encoding.                                   *)

\* H::init(), which is also the Default of the sponge state.
init == << 0, 0, 0 >>

\* The permutation of the sponge state.
permutation(state) ==
    LET a == FAdd(FPow(state[1], 3), state[3])
        b == FAdd(state[2], FMul(2, a))
        c == FAdd(state[3], FAdd(b, 1))
    IN << b, c, a >>

\* H::pad_and_absorb_all: the input is padded with a one and zeros up to a
\* multiple of the rate; each chunk overwrites the rate part of the state,
\* which is then permuted.
pad_and_absorb_all(state, input) ==
    LET RECURSIVE absorb_repeatedly(_, _)
        absorb_repeatedly(sponge, chunks) ==
            IF chunks = << >> THEN sponge
            ELSE absorb_repeatedly(
                    permutation(<< chunks[1], chunks[2], sponge[3] >>),
                    SubSeq(chunks, 3, Len(chunks)))
        padded_one == Append(input, 1)
        padded == IF Len(padded_one) % 2 = 0 THEN padded_one
                  ELSE Append(padded_one, 0)
    IN absorb_repeatedly(state, padded)

\* H::squeeze: the rate part is given out and the state is permuted.
squeeze(state) == [output |-> << state[1], state[2] >>, state |-> permutation(state)]

\* H::sample_indices: elements are squeezed until num_indices of them differ
\* from BFieldElement::MAX; each is taken as a u32 and reduced modulo the
\* bound.  A bound of zero makes the call panic: in a debug build by the
\* assertion that the bound is a power of two, in a release build by the
\* remainder of a division by zero once an index is computed.
hasher_sample_indices(state, upper_bound, num_indices, debug_assertions) ==
    LET RECURSIVE sample(_, _, _)
        sample(sponge, squeezed_elements, indices) ==
            IF Len(indices) = num_indices
            THEN [panicked |-> FALSE, state |-> sponge, indices |-> indices]
            ELSE LET squeezed == IF squeezed_elements = << >> THEN squeeze(sponge)
                                 ELSE [output |-> squeezed_elements, state |-> sponge]
                     element == Head(squeezed.output)
                 IN sample(squeezed.state, Tail(squeezed.output),
                           IF element # P - 1
                           THEN Append(indices, (element % 16) % upper_bound)
                           ELSE indices)
    IN IF upper_bound = 0 /\ (debug_assertions \/ num_indices > 0)
       THEN [panicked |-> TRUE, state |-> state, indices |-> << >>]
       ELSE sample(state, << >>, << >>)

\* The proof items sent in the model.
ProofItem ==
    { [variant |-> "MerkleRoot", payload |-> << 3, 4 >>],
      [variant |-> "OutOfDomainBaseRow", payload |-> << 5 >>],
      [variant |-> "FriCodeword", payload |-> << >>],
      [variant |-> "Log2PaddedHeight", payload |-> << 7 >>] }

\* ProofItem::include_in_fiat_shamir_heuristic: items implied by a Merkle
\* root that was sent before do not alter the sponge state.
include_in_fiat_shamir_heuristic(item) ==
    item.variant \in { "MerkleRoot", "OutOfDomainBaseRow" }

\* The encoding of one proof item: the discriminant of the variant, then the
\* field; a vector is preceded by its length, a digest and a height are not.
encode_item(item) ==
    CASE item.variant = "OutOfDomainBaseRow" ->
            << 3, Len(item.payload) >> \o item.payload
      [] item.variant = "MerkleRoot" -> << 6 >> \o item.payload
      [] item.variant = "Log2PaddedHeight" -> << 7 >> \o item.payload
      [] item.variant = "FriCodeword" ->
            << 9, Len(item.payload) >> \o item.payload

\* A conversion that encodes the items from the last to the first.
from_the_last_item_to_the_first(stream) ==
    LET RECURSIVE encode_items(_)
        encode_items(items) ==
            IF items = << >> THEN << >>
            ELSE encode_items(Tail(items))
                    \o << Len(encode_item(Head(items))) >> \o encode_item(Head(items))
        field == << Len(stream.items) >> \o encode_items(stream.items)
    IN << Len(field) >> \o field

\* From<&ProofStream> for Proof, the BFieldCodec encoding of a proof stream:
\* of its fields only items is encoded, preceded by the length of its
\* encoding; the encoding of the vector is the number of items and then
\* every item preceded by its length.
from(stream) ==
    LET RECURSIVE encode_items(_)
        encode_items(items) ==
            IF items = << >> THEN << >>
            ELSE << Len(encode_item(Head(items))) >> \o encode_item(Head(items))
                    \o encode_items(Tail(items))
        field == << Len(stream.items) >> \o encode_items(stream.items)
    IN << Len(field) >> \o field

\* TryFrom<&Proof> for ProofStream, the decoding of a proof stream: the
\* items are read back and the ignored fields take their defaults.
try_from(encoding) ==
    LET decode_item(sequence) ==
            LET error == [ok |-> FALSE, item |-> << >>]
                fields == Tail(sequence)
                vector(variant) ==
                    IF Len(fields) >= 1 /\ Head(fields) = Len(fields) - 1
                    THEN [ok |-> TRUE,
                          item |-> [variant |-> variant, payload |-> Tail(fields)]]
                    ELSE error
                fixed(variant, length) ==
                    IF Len(fields) = length
                    THEN [ok |-> TRUE,
                          item |-> [variant |-> variant, payload |-> fields]]
                    ELSE error
            IN IF sequence = << >> THEN error
               ELSE CASE Head(sequence) = 3 -> vector("OutOfDomainBaseRow")
                      [] Head(sequence) = 6 -> fixed("MerkleRoot", 2)
                      [] Head(sequence) = 7 -> fixed("Log2PaddedHeight", 1)
                      [] Head(sequence) = 9 -> vector("FriCodeword")
                      [] OTHER -> error
        RECURSIVE decode_items(_, _)
        decode_items(sequence, num_items) ==
            IF num_items = 0
            THEN [ok |-> sequence = << >>, items |-> << >>]
            ELSE IF sequence = << >> \/ Head(sequence) > Len(sequence) - 1
            THEN [ok |-> FALSE, items |-> << >>]
            ELSE LET length == Head(sequence)
                     first == decode_item(SubSeq(sequence, 2, length + 1))
                     others == decode_items(
                                    SubSeq(sequence, length + 2, Len(sequence)),
                                    num_items - 1)
                 IN [ok |-> first.ok /\ others.ok,
                     items |-> IF first.ok /\ others.ok
                               THEN << first.item >> \o others.items ELSE << >>]
        malformed == [ok |-> FALSE, stream |-> << >>]
    IN IF Len(encoding) < 2 \/ Head(encoding) # Len(encoding) - 1 THEN malformed
       ELSE LET decoded == decode_items(SubSeq(encoding, 3, Len(encoding)),
                                        encoding[2])
            IN IF ~decoded.ok THEN malformed
               ELSE [ok |-> TRUE,
                     stream |-> [items |-> decoded.items, items_index |-> 0,
                                 sponge_state |-> init]]

\* ProofStream::new
new == [items |-> << >>, items_index |-> 0, sponge_state |-> init]

\* ProofStream::alter_fiat_shamir_state_with
alter_fiat_shamir_state_with(stream, encoding) ==
    [stream EXCEPT !.sponge_state = pad_and_absorb_all(stream.sponge_state, encoding)]

\* An enqueue that hashes every item into the sponge state.
enqueue_hashing_every_item(stream, item) ==
    LET altered == alter_fiat_shamir_state_with(stream, encode_item(item))
    IN [altered EXCEPT !.items = Append(altered.items, item)]

\* An enqueue that puts the item in front of the items held.
enqueue_at_the_front(stream, item) ==
    LET altered == IF include_in_fiat_shamir_heuristic(item)
                   THEN alter_fiat_shamir_state_with(stream, encode_item(item))
                   ELSE stream
    IN [altered EXCEPT !.items = << item >> \o altered.items]

\* ProofStream::enqueue
enqueue(stream, item) ==
    LET altered == IF include_in_fiat_shamir_heuristic(item)
                   THEN alter_fiat_shamir_state_with(stream, encode_item(item))
                   ELSE stream
    IN [altered EXCEPT !.items = Append(altered.items, item)]

\* A dequeue that never alters the sponge state.
dequeue_leaving_the_sponge_state(stream) ==
    IF stream.items_index >= Len(stream.items)
    THEN [stream |-> stream, ok |-> FALSE, value |-> "EmptyQueue"]
    ELSE [stream |-> [stream EXCEPT !.items_index = stream.items_index + 1],
          ok |-> TRUE, value |-> stream.items[stream.items_index + 1]]

\* A dequeue that counts the failed attempt as well.
dequeue_counting_failed_attempts(stream) ==
    IF stream.items_index >= Len(stream.items)
    THEN [stream |-> [stream EXCEPT !.items_index = stream.items_index + 1],
          ok |-> FALSE, value |-> "EmptyQueue"]
    ELSE LET item == stream.items[stream.items_index + 1]
             altered == IF include_in_fiat_shamir_heuristic(item)
                        THEN alter_fiat_shamir_state_with(stream, encode_item(item))
                        ELSE stream
         IN [stream |-> [altered EXCEPT !.items_index = stream.items_index + 1],
             ok |-> TRUE, value |-> item]

\* A dequeue that takes the item out of the stream.
dequeue_removing_the_item(stream) ==
    IF stream.items = << >>
    THEN [stream |-> stream, ok |-> FALSE, value |-> "EmptyQueue"]
    ELSE LET item == Head(stream.items)
             altered == IF include_in_fiat_shamir_heuristic(item)
                        THEN alter_fiat_shamir_state_with(stream, encode_item(item))
                        ELSE stream
         IN [stream |-> [altered EXCEPT !.items = Tail(stream.items)],
             ok |-> TRUE, value |-> item]

\* ProofStream::dequeue: the stream after the call and the returned value.
dequeue(stream) ==
    IF stream.items_index >= Len(stream.items)
    THEN [stream |-> stream, ok |-> FALSE, value |-> "EmptyQueue"]
    ELSE LET item == stream.items[stream.items_index + 1]
             altered == IF include_in_fiat_shamir_heuristic(item)
                        THEN alter_fiat_shamir_state_with(stream, encode_item(item))
                        ELSE stream
         IN [stream |-> [altered EXCEPT !.items_index = stream.items_index + 1],
             ok |-> TRUE, value |-> item]

\* ProofStream::sample_indices: the stream after the call, whether the call
\* panicked, the bound handed to the hasher and the indices returned.  The
\* u32 has half the bits of a field element.
sample_indices(stream, upper_bound, num_indices, debug_assertions) ==
    LET is_power_of_two == upper_bound \in { 1, 2, 4, 8, 16, 32, 64, 128, 256 }
        as_u32 == upper_bound % 16
        sampled == hasher_sample_indices(stream.sponge_state, as_u32, num_indices,
                                         debug_assertions)
    IN IF ~is_power_of_two \/ upper_bound > P - 1
       THEN [stream |-> stream, panicked |-> TRUE, bound |-> -1, indices |-> << >>]
       ELSE [stream |-> [stream EXCEPT !.sponge_state = sampled.state],
             panicked |-> sampled.panicked, bound |-> as_u32,
             indices |-> sampled.indices]

\* Most calls made on proof streams in one behaviour.
MaxCalls == 5

\* Bookkeeping about a stream nothing was called on yet.
FreshTranscript(started_with_new, prover_sponge_states) ==
    [started_with_new |-> started_with_new,
     enqueued |-> << >>,
     dequeued |-> << >>,
     only_enqueued |-> started_with_new,
     sponge_states |-> IF started_with_new THEN << init >> ELSE << >>,
     only_dequeued |-> prover_sponge_states # << >>,
     prover_sponge_states |-> prover_sponge_states,
     calls |-> 0,
     proof_source |-> << >>,
     proof_sponge_states |-> << >>]

InitProofStream ==
    /\ pc = "proof_stream"
    /\ proof_stream = new
    /\ proof = << >>
    /\ transcript = FreshTranscript(TRUE, << >>)
    /\ args = [op |-> "none"]
    /\ result = [op |-> "new"]
    /\ processor_table = << >>
    /\ processor_table_len = 0
    /\ table_before = << >>
    /\ padding_template = NoRow
    /\ rows_assigned = {}
    /\ ext_table = << >>
    /\ running = << >>
    /\ row_idx = 0
    /\ challenges = << >>
    /\ curr = << >>
    /\ walk = << >>

StreamIdleVars == << processor_table, processor_table_len, table_before,
                    padding_template, rows_assigned, ext_table, running, row_idx,
                    challenges, args, curr, walk >>

\* The prover sends an item.
Enqueue(item) ==
    /\ pc = "proof_stream"
    /\ transcript.calls < MaxCalls
    /\ proof_stream' = enqueue(proof_stream, item)
    /\ transcript' = [transcript EXCEPT
            !.enqueued = Append(@, item), !.calls = @ + 1,
            !.sponge_states = IF transcript.only_enqueued
                              THEN Append(@, proof_stream'.sponge_state) ELSE @,
            !.only_dequeued = FALSE]
    /\ result' = [op |-> "enqueue", item |-> item]
    /\ UNCHANGED << pc, proof, StreamIdleVars >>

\* The verifier receives an item, or an error.
Dequeue ==
    /\ pc = "proof_stream"
    /\ transcript.calls < MaxCalls
    /\ LET returned == dequeue(proof_stream)
       IN /\ proof_stream' = returned.stream
          /\ result' = [op |-> "dequeue", ok |-> returned.ok, value |-> returned.value]
          /\ transcript' = [transcript EXCEPT
                !.dequeued = IF returned.ok THEN Append(@, returned.value) ELSE @,
                !.only_enqueued = FALSE, !.calls = @ + 1]
    /\ UNCHANGED << pc, proof, StreamIdleVars >>

\* Something that is not sent is hashed into the sponge state.
AlterFiatShamirState(encoding) ==
    /\ pc = "proof_stream"
    /\ transcript.calls < MaxCalls
    /\ proof_stream' = alter_fiat_shamir_state_with(proof_stream, encoding)
    /\ transcript' = [transcript EXCEPT !.calls = @ + 1,
                                        !.only_enqueued = FALSE,
                                        !.only_dequeued = FALSE]
    /\ result' = [op |-> "alter_fiat_shamir_state_with", item |-> encoding]
    /\ UNCHANGED << pc, proof, StreamIdleVars >>

\* Indices are sampled; a panic ends the use of the stream.
SampleIndices(upper_bound, num_indices, debug_assertions) ==
    /\ pc = "proof_stream"
    /\ transcript.calls < MaxCalls
    /\ LET returned == sample_indices(proof_stream, upper_bound, num_indices,
                                      debug_assertions)
       IN /\ proof_stream' = returned.stream
          /\ pc' = IF returned.panicked THEN "panicked" ELSE pc
          /\ result' = [op |-> "sample_indices", upper_bound |-> upper_bound,
                        num_indices |-> num_indices, panicked |-> returned.panicked,
                        bound |-> returned.bound, indices |-> returned.indices]
    /\ transcript' = [transcript EXCEPT !.calls = @ + 1,
                                        !.only_enqueued = FALSE,
                                        !.only_dequeued = FALSE]
    /\ UNCHANGED << proof, StreamIdleVars >>

\* The stream is converted into a proof.
IntoProof ==
    /\ pc = "proof_stream"
    /\ proof' = from(proof_stream)
    /\ transcript.calls < MaxCalls
    /\ transcript' = [transcript EXCEPT !.calls = @ + 1,
            !.proof_source = proof_stream,
            !.proof_sponge_states = IF transcript.only_enqueued
                                    THEN transcript.sponge_states ELSE << >>]
    /\ result' = [op |-> "from"]
    /\ UNCHANGED << pc, proof_stream, StreamIdleVars >>

\* The proof is converted into a stream, which is used from then on.
TryFromProof ==
    /\ pc = "proof_stream"
    /\ proof # << >>
    /\ transcript.calls < MaxCalls
    /\ LET converted == try_from(proof)
       IN /\ proof_stream' = IF converted.ok THEN converted.stream ELSE proof_stream
          /\ result' = [op |-> "try_from", ok |-> converted.ok]
          /\ transcript' =
                IF converted.ok
                THEN [FreshTranscript(FALSE, transcript.proof_sponge_states) EXCEPT
                        !.calls = transcript.calls + 1,
                        !.proof_source = transcript.proof_source,
                        !.proof_sponge_states = transcript.proof_sponge_states]
                ELSE transcript
    /\ UNCHANGED << pc, proof, StreamIdleVars >>

NextProofStream ==
    \/ \E item \in ProofItem : Enqueue(item)
    \/ Dequeue
    \/ \E encoding \in { << 1, 2, 0 >>, << 6 >> } : AlterFiatShamirState(encoding)
    \/ \E upper_bound \in { 0, 2, 3, 8, 16, 32, 256 }, num_indices \in { 0, 2 },
          debug_assertions \in BOOLEAN :
            SampleIndices(upper_bound, num_indices, debug_assertions)
    \/ IntoProof
    \/ TryFromProof

SpecProofStream == InitProofStream /\ [][NextProofStream]_vars

-----------------------------------------------------------------------------
(* Dequeueing from a stream without unread items                           *)

\* C23: a dequeue on a stream whose items_index equals the number of its
\* items, be the stream fresh or read to its end, returns the error
\* EmptyQueue and leaves items, items_index and the sponge state as they are.
C23_DequeueWithoutUnreadItemFails ==
    [][(Dequeue /\ proof_stream.items_index = Len(proof_stream.items))
        => /\ ~result'.ok
           /\ result'.value = "EmptyQueue"
           /\ proof_stream'.items = proof_stream.items
           /\ proof_stream'.items_index = proof_stream.items_index
           /\ proof_stream'.sponge_state = proof_stream.sponge_state]_vars

\* Two items were enqueued and dequeued, and a third dequeue has failed.
C23_Witness ==
    /\ result.op = "dequeue"
    /\ ~result.ok
    /\ Len(proof_stream.items) = 2
    /\ proof_stream.items_index = 2
    /\ transcript.started_with_new
    /\ Len(transcript.dequeued) = 2

-----------------------------------------------------------------------------
(* The order of the items                                                  *)

\* C24: on a stream started with new(), whatever the interleaving of the
\* calls, a dequeue succeeds exactly when fewer items have been dequeued
\* than enqueued, and the k-th successful dequeue returns the k-th item
\* enqueued.
C24_ItemsAreDequeuedFirstInFirstOut ==
    [][(Dequeue /\ transcript.started_with_new)
        => LET k == Len(transcript.dequeued) + 1
           IN /\ result'.ok <=> Len(transcript.dequeued) < Len(transcript.enqueued)
              /\ result'.ok => result'.value = transcript.enqueued[k]]_vars

\* Three different items were enqueued and the second dequeue has returned
\* the second of them.
C24_Witness ==
    /\ transcript.started_with_new
    /\ result.op = "dequeue"
    /\ result.ok
    /\ Len(transcript.enqueued) = 3
    /\ Len(transcript.dequeued) = 2
    /\ Cardinality({ transcript.enqueued[i] : i \in 1 .. 3 }) = 3
    /\ result.value = transcript.enqueued[2]
    /\ proof_stream.items_index = 2

-----------------------------------------------------------------------------
(* The sponge states of prover and verifier                                *)

\* C25: a prover stream starts from new() and only enqueues; the verifier
\* stream is the prover stream converted to a proof and back.  After k
\* dequeues the sponge state of the verifier is the sponge state the prover
\* had after k enqueues, for every k up to the number of items.
C25_VerifierFollowsSpongeStatesOfProver ==
    transcript # << >> /\ transcript.only_dequeued
        => /\ Len(transcript.dequeued) < Len(transcript.prover_sponge_states)
           /\ proof_stream.sponge_state
                = transcript.prover_sponge_states[Len(transcript.dequeued) + 1]

\* The verifier has dequeued the first of two items, one that is hashed.
C25_Witness ==
    /\ transcript.only_dequeued
    /\ Len(transcript.prover_sponge_states) = 3
    /\ Len(transcript.dequeued) = 1
    /\ include_in_fiat_shamir_heuristic(transcript.dequeued[1])
    /\ proof_stream.sponge_state # init
    /\ proof_stream.sponge_state = transcript.prover_sponge_states[2]

-----------------------------------------------------------------------------
(* What the calls change                                                   *)

\* C26: enqueueing an item that is not part of the Fiat-Shamir heuristic
\* appends it to items and leaves the sponge state; dequeueing such an item
\* returns it and advances items_index by one, leaving the sponge state;
\* alter_fiat_shamir_state_with leaves items and items_index.
C26_SpongeStateChangesOnlyForHashedItems ==
    [][/\ \A item \in ProofItem :
            (Enqueue(item) /\ ~include_in_fiat_shamir_heuristic(item))
                => /\ proof_stream'.sponge_state = proof_stream.sponge_state
                   /\ proof_stream'.items = Append(proof_stream.items, item)
       /\ (/\ Dequeue
           /\ proof_stream.items_index < Len(proof_stream.items)
           /\ ~include_in_fiat_shamir_heuristic(
                    proof_stream.items[proof_stream.items_index + 1]))
                => /\ proof_stream'.sponge_state = proof_stream.sponge_state
                   /\ result'.ok
                   /\ result'.value = proof_stream.items[proof_stream.items_index + 1]
                   /\ proof_stream'.items_index = proof_stream.items_index + 1
       /\ (/\ result'.op = "alter_fiat_shamir_state_with"
           /\ AlterFiatShamirState(result'.item))
                => /\ proof_stream'.items = proof_stream.items
                   /\ proof_stream'.items_index = proof_stream.items_index]_vars

\* An item that is not hashed was dequeued after one that is, and then
\* another item that is not hashed was enqueued.
C26_Witness ==
    /\ result.op = "enqueue"
    /\ ~include_in_fiat_shamir_heuristic(result.item)
    /\ proof_stream.items_index = 2
    /\ Len(proof_stream.items) = 3
    /\ include_in_fiat_shamir_heuristic(proof_stream.items[1])
    /\ ~include_in_fiat_shamir_heuristic(proof_stream.items[2])
    /\ proof_stream.sponge_state # init

-----------------------------------------------------------------------------
(* From a stream to a proof and back                                       *)

\* C27: a stream converted to a proof and the proof converted back is a
\* stream with the same items in the same order and items_index 0, whatever
\* the items_index of the stream converted.
C27_ProofRoundTripKeepsItemsAndResetsIndex ==
    result.op = "try_from"
        => /\ result.ok
           /\ proof_stream.items = transcript.proof_source.items
           /\ proof_stream.items_index = 0

\* A stream of two different items, the first of them dequeued, was
\* converted to a proof and back.
C27_Witness ==
    /\ result.op = "try_from"
    /\ result.ok
    /\ Len(transcript.proof_source.items) = 2
    /\ transcript.proof_source.items_index = 1
    /\ transcript.proof_source.items[1].variant = "FriCodeword"
    /\ transcript.proof_source.items[2].variant = "MerkleRoot"
    /\ proof = << 8, 2, 2, 9, 0, 3, 6, 3, 4 >>
    /\ proof_stream.items = transcript.proof_source.items

-----------------------------------------------------------------------------
(* Sampled indices                                                         *)

\* C28: for every upper_bound that is a power of two and passes the
\* assertions of sample_indices, the bound handed to the hasher, converted
\* to a u32, equals upper_bound, and the call returns num_indices numbers of
\* the interval from 0 to upper_bound - 1, also for upper bounds no u32
\* holds.
C28_SampledIndicesAreBelowUpperBound ==
    (/\ result.op = "sample_indices"
     /\ result.upper_bound \in { 1, 2, 4, 8, 16, 32, 64, 128, 256 }
     /\ result.upper_bound <= P - 1)
        => /\ result.bound = result.upper_bound
           /\ ~result.panicked
           /\ Len(result.indices) = result.num_indices
           /\ \A i \in 1 .. Len(result.indices) :
                result.indices[i] \in 0 .. result.upper_bound - 1

-----------------------------------------------------------------------------
(* The fused transition constraints                                        *)

\* C29: on a row pair whose current row holds the instruction bits of
\* instruction J, the k-th polynomial of
\* combine_instruction_constraints_with_deselectors is the k-th transition
\* polynomial of J, or zero if J has fewer polynomials, times the deselector
\* of J, which is not zero: it is zero exactly when the polynomial of J is,
\* and no other instruction has a part in it.
C29_FusedConstraintsAreThoseOfTheCurrentInstruction ==
    (args.op = "fusion" /\ result.done)
        => LET deselector == instruction_deselector_current_row(
                                args.instruction, args.current, args.next)
           IN /\ deselector # 0
              /\ Len(result.fused) = max_number_of_instruction_constraints
              /\ Len(result.own) <= Len(result.fused)
              /\ \A k \in 1 .. Len(result.fused) :
                    /\ result.fused[k] = XScale(GetOrZero(result.own, k), deselector)
                    /\ result.fused[k] = XZero <=> GetOrZero(result.own, k) = XZero

\* The constraints were fused on a row pair of push: push has fewer
\* polynomials than the fused vector, one of them is zero on the pair and
\* one is not.
C29_Witness ==
    /\ args.op = "fusion"
    /\ result.done
    /\ args.instruction = "Push"
    /\ Len(result.own) < Len(result.fused)
    /\ \E k \in 1 .. Len(result.own) : result.own[k] = XZero /\ result.fused[k] = XZero
    /\ \E k \in 1 .. Len(result.own) : result.own[k] # XZero /\ result.fused[k] # XZero

\* The columns the constraints of padding rows read are the same in both
\* rows of the pair.
PaddingColumnsAreKept ==
    /\ \A column \in { "IP", "CI", "NIA", "JSP", "JSO", "JSD", "OpStackPointer",
                       "RAMV", "RAMP" }
                     \cup { op_stack_column_by_index(i) : i \in 0 .. 15 } :
            args.next[column] = args.current[column]
    /\ args.shift = 0

\* C30: on a row pair whose next row is a padding row, the polynomials of
\* combine_transition_constraints_with_padding_constraints are all zero
\* exactly when IP, CI, NIA, JSP, JSO, JSD, ST0..ST15, OpStackPointer,
\* OpStackTablePermArg, RAMV and RAMP are the same in both rows, whatever
\* the current instruction; on a pair whose next row is no padding row each
\* polynomial is the fused instruction polynomial at its position.
C30_PaddingRowsKeepTheStateOfTheProcessor ==
    (args.op = "fusion" /\ result.done)
        => /\ args.next["IsPadding"] = 1
                => (AllZero(result.padded) <=> PaddingColumnsAreKept)
           /\ args.next["IsPadding"] = 0
                => /\ Len(result.padded) >= Len(result.fused)
                   /\ \A k \in 1 .. Len(result.padded) :
                        result.padded[k] = GetOrZero(result.fused, k)

\* On a pair of rows with halt whose next row is a padding row with another
\* RAMV, the fused instruction polynomials are not all zero, nor are the
\* polynomials with the constraints of padding rows.
C30_Witness ==
    /\ args.op = "fusion"
    /\ result.done
    /\ args.instruction = "Halt"
    /\ args.next["IsPadding"] = 1
    /\ args.next["RAMV"] # args.current["RAMV"]
    /\ args.next["IP"] = args.current["IP"]
    /\ ~AllZero(result.padded)
    /\ ~AllZero(result.fused)

-----------------------------------------------------------------------------
(* The running product of the op stack table, as written and as demanded   *)

\* The frame of the row pair extend was run on: the running product of the
\* op stack table is the initial one in the current row and, in the next
\* row, the one extend has computed, moved by the given shift.
ExtendedFrame(shift) ==
    [cb |-> args.previous_row, ce |-> ExtensionRow(InitialAccumulators),
     nb |-> args.current_row,
     ne |-> [ExtensionRow(result.value) EXCEPT
                !["OpStackTablePermArg"] = XAdd(@, XLift(shift))],
     ch |-> challenges]

\* The positions of the transition constraints of the instruction that read
\* the running product of the op stack table of the next row.
OpStackPermArgPositions(instruction) ==
    LET written == get_transition_constraints_for_instruction(
                        ExtendedFrame(0), instruction)
        moved == get_transition_constraints_for_instruction(
                        ExtendedFrame(1), instruction)
    IN { k \in 1 .. Len(written) : written[k] # moved[k] }

\* C31: on consecutive rows whose second row is no padding row and whose
\* first row holds a legal instruction, the factor extend multiplies into
\* OpStackTablePermArg is the factor of the instruction's transition
\* constraints: for an instruction growing the stack by one, the
\* indeterminate minus the weighted CLK and IB1 of the first row and
\* OpStackPointer and ST15 of the first row; for one shrinking it by one the
\* same with OpStackPointer and ST15 of the second row; for one leaving the
\* size, one.  The running product extend writes satisfies the constraints
\* of the instruction that read it.
C31_ExtendWritesTheOpStackFactorOfTheConstraints ==
    (/\ args.op = "extend" /\ result.done /\ ~result.panicked
     /\ args.has_previous_row
     /\ args.current_row["IsPadding"] = 0
     /\ InstructionsWithOpcode(args.previous_row["CI"]) # {})
        => LET instruction ==
                    CHOOSE i \in InstructionsWithOpcode(args.previous_row["CI"]) : TRUE
               influence == op_stack_size_influence(instruction)
               f == ExtendedFrame(0)
               factor == result.value.op_stack_table_running_product
           IN /\ influence = 1 => factor = OpStackPermArgFactor(f, f.cb)
              /\ influence = -1 => factor = OpStackPermArgFactor(f, f.nb)
              /\ influence = 0 => factor = XOne
              /\ influence \in { -1, 0, 1 }
              /\ OpStackPermArgPositions(instruction) # {}
              /\ \A k \in OpStackPermArgPositions(instruction) :
                    get_transition_constraints_for_instruction(f, instruction)[k] = XZero

\* extend was run on a row of pop and the row after it, whose stack is
\* shorter by one: the factor differs from the one of a growing stack.
C31_Witness ==
    /\ args.op = "extend" /\ result.done /\ ~result.panicked
    /\ args.has_previous_row
    /\ args.current_row["IsPadding"] = 0
    /\ args.previous_row["CI"] = opcode_b("Pop")
    /\ args.previous_row["IB1"] = 1
    /\ args.current_row["OpStackPointer"] = 16
    /\ result.value.op_stack_table_running_product
            = OpStackPermArgFactor(ExtendedFrame(0), args.current_row)
    /\ result.value.op_stack_table_running_product
            # OpStackPermArgFactor(ExtendedFrame(0), args.previous_row)
    /\ result.value.op_stack_table_running_product # XOne

-----------------------------------------------------------------------------
(* The decomposition of the next instruction by skiz                       *)

\* The next instructions below 512 and, as the field of the VM, fields of
\* more than 511 elements.
InitDecomposition ==
    /\ args \in [op : { "nia_decomposes_to_hvs" }, nia : 0 .. 511, p : { 521, 7681 }]
    /\ result = [done |-> FALSE, value |-> {}]
    /\ IdleTrace
    /\ IdleStream
    /\ curr = << >>
    /\ walk = << >>

\* The helper variables within the ranges skiz checks that make the
\* polynomial zero are collected.
EvaluateDecomposition ==
    /\ args.op = "nia_decomposes_to_hvs"
    /\ ~result.done
    /\ result' =
        [done |-> TRUE,
         value |-> { hv \in { 0, 1 } \X (0 .. 3) \X (0 .. 3) \X (0 .. 3) \X (0 .. 3) :
                        nia_decomposes_to_hvs(args.nia, hv, args.p) = 0 }]
    /\ UNCHANGED << traceVars, args, airVars, streamVars >>

NextDecomposition == EvaluateDecomposition

SpecDecomposition == InitDecomposition /\ [][NextDecomposition]_vars

\* C32: for every NIA from 0 to 511 exactly one tuple (HV2, .., HV6) with
\* HV2 in {0, 1} and HV3..HV6 in {0, 1, 2, 3} satisfies
\* NIA = HV2 + 2 HV3 + 8 HV4 + 32 HV5 + 128 HV6, and its HV2 is the least
\* significant bit of NIA.
C32_NiaDecompositionIsUnique ==
    (args.op = "nia_decomposes_to_hvs" /\ result.done)
        => /\ Cardinality(result.value) = 1
           /\ \A hv \in result.value :
                /\ hv[1] = args.nia % 2
                /\ args.nia = hv[1] + 2 * hv[2] + 8 * hv[3] + 32 * hv[4] + 128 * hv[5]

\* 331 = 1 + 2 + 8 + 2 * 32 + 2 * 128 was decomposed.
C32_Witness ==
    /\ args.op = "nia_decomposes_to_hvs"
    /\ result.done
    /\ args.nia = 331
    /\ result.value = { << 1, 1, 1, 2, 2 >> }

-----------------------------------------------------------------------------
(* The transition constraints of the three sponge instructions             *)

\* The constraints of one of the sponge instructions were evaluated on the
\* row pair.
SpongeFrameEvaluated ==
    /\ args.op = "transition_constraints_for_instruction"
    /\ args.instruction \in { "SpongeInit", "SpongeAbsorb", "SpongeSqueeze" }
    /\ result.done

\* The frame with the ten top stack elements of the next row set to those of
\* the current row.
WithTopTenKept(f) ==
    [f EXCEPT !.nb = [col \in DOMAIN f.nb |->
                        IF col \in { op_stack_column_by_index(k) : k \in 0 .. 9 }
                        THEN f.cb[col] ELSE f.nb[col]]]

\* C33 as stated: sponge_init, sponge_absorb and sponge_squeeze accept
\* exactly the same row pairs.
C33_SpongeInstructionsAcceptTheSameRowPairs ==
    SpongeFrameEvaluated =>
        /\ AllZero(instruction_sponge_init(EvaluatedFrame))
            = AllZero(instruction_sponge_absorb(EvaluatedFrame))
        /\ AllZero(instruction_sponge_absorb(EvaluatedFrame))
            = AllZero(instruction_sponge_squeeze(EvaluatedFrame))

\* C33, amended: sponge_init and sponge_absorb emit identical transition
\* constraint vectors, which accept a row pair only if IP' = IP + 1 and the
\* jump stack, the RAM and every op stack register are kept; sponge_squeeze
\* emits a shorter vector that leaves the ten top stack elements ST0..ST9
\* unconstrained: it accepts a row pair exactly when the other two accept
\* the pair with ST0'..ST9' set to ST0..ST9.
C33_SpongeSqueezeLeavesTheTopTenUnconstrained ==
    SpongeFrameEvaluated =>
        LET f == EvaluatedFrame
        IN /\ instruction_sponge_init(f) = instruction_sponge_absorb(f)
           /\ Len(instruction_sponge_squeeze(f)) + 10 = Len(instruction_sponge_init(f))
           /\ AllZero(instruction_sponge_squeeze(f))
                = AllZero(instruction_sponge_init(WithTopTenKept(f)))
           /\ AllZero(instruction_sponge_init(f)) =>
                /\ IpStepIs(1)
                /\ \A col \in { "JSP", "JSO", "JSD", "RAMV", "RAMP", "OpStackPointer" }
                        \cup { op_stack_column_by_index(k) : k \in 0 .. 15 } :
                        args.next[col] = args.current[col]
                /\ args.shift = 0

\* sponge_squeeze accepted a row pair whose ST0 changes.
C33_Witness ==
    /\ Accepted("SpongeSqueeze")
    /\ args.next["ST0"] # args.current["ST0"]
    /\ ~AllZero(instruction_sponge_init(EvaluatedFrame))
    /\ ~AllZero(instruction_sponge_absorb(EvaluatedFrame))

-----------------------------------------------------------------------------
(* What pad_trace leaves alone                                             *)

\* C34: pad_trace leaves every cell of every real row unchanged, except the
\* lookup multiplicity of row 1 when row 1 is a real row, and the padding
\* template is built from the last real row as it was before the call,
\* whatever the rows behind it hold, while the table is still unaltered.
C34_PadTraceLeavesRealRowsUnchanged ==
    (0 < processor_table_len /\ processor_table_len <= Len(processor_table)) =>
        /\ \A r \in 0 .. (processor_table_len - 1) :
            \A column \in ProcessorBaseTableColumn :
                (r # 1 \/ column # "ClockJumpDifferenceLookupMultiplicity") =>
                    Row(processor_table, r)[column] = Row(table_before, r)[column]
        /\ padding_template # NoRow =>
            padding_template =
                [Row(table_before, processor_table_len - 1) EXCEPT
                    !["IsPadding"] = 1,
                    !["ClockJumpDifferenceLookupMultiplicity"] = 0]
        /\ (pc = "fill" /\ rows_assigned = {}) => processor_table = table_before

\* A table of two real rows and a stale third row has been padded: the
\* multiplicity of row 1 has changed, its other cells and row 0 have not.
C34_Witness ==
    /\ PadReturned
    /\ processor_table_len = 2
    /\ Len(processor_table) = 3
    /\ Row(table_before, 2)["CLK"] = 7
    /\ Row(table_before, 2)["IsPadding"] = 7
    /\ Row(processor_table, 2)["IsPadding"] = 1
    /\ Row(processor_table, 1)["ClockJumpDifferenceLookupMultiplicity"]
        # Row(table_before, 1)["ClockJumpDifferenceLookupMultiplicity"]
    /\ Row(processor_table, 0) = Row(table_before, 0)
    /\ Row(processor_table, 1)["IsPadding"] = 0

-----------------------------------------------------------------------------
(* The parallel fill of pad_trace                                          *)

\* The table a pad_trace that fills the padding rows one after the other, in
\* ascending order, makes of the table before the call.
SequentiallyPadded ==
    [i \in 1 .. Len(table_before) |->
        LET row == IF i <= processor_table_len
                   THEN table_before[i]
                   ELSE [table_before[processor_table_len] EXCEPT
                            !["IsPadding"] = 1,
                            !["ClockJumpDifferenceLookupMultiplicity"] = 0,
                            !["CLK"] = BNew(i - 1)]
        IN IF i = 2
           THEN [row EXCEPT !["ClockJumpDifferenceLookupMultiplicity"] =
                    FAdd(@, BNew(2 * (Len(table_before) - processor_table_len)))]
           ELSE row]

\* C35: the table pad_trace produces is the same for every interleaving of
\* the fill tasks.  While they run, a padding row holds the template if its
\* task has run and is untouched if not, and the template and the real rows
\* do not change; the clock ramp and the increment of row 1's multiplicity
\* happen only after every fill task has run.
C35_PaddedTableIsIndependentOfTheSchedule ==
    (0 < processor_table_len /\ processor_table_len <= Len(processor_table)) =>
        /\ PadReturned => processor_table = SequentiallyPadded
        /\ pc = "fill" =>
            \A r \in 0 .. (Len(processor_table) - 1) :
                Row(processor_table, r) =
                    IF r \in rows_assigned THEN padding_template
                    ELSE Row(table_before, r)
        /\ pc \in { "multiplicity", "padded", "extend", "extended" } =>
            rows_assigned = PaddingRows
        /\ rows_assigned \subseteq PaddingRows

\* The task of the last row of three has run before the task of row 1.
FillOutOfOrder ==
    /\ pc = "fill"
    /\ processor_table_len = 1
    /\ Len(processor_table) = 3
    /\ rows_assigned = { 2 }

\* Row 1 is a padding row of a table of three rows: after the fill tasks,
\* the clock ramp and the increment, it holds CLK 1 and the multiplicity 4.
C35_Witness ==
    /\ PadReturned
    /\ processor_table_len = 1
    /\ Len(processor_table) = 3
    /\ rows_assigned = { 1, 2 }
    /\ processor_table = SequentiallyPadded
    /\ Row(processor_table, 1)["ClockJumpDifferenceLookupMultiplicity"] = 4
    /\ Row(processor_table, 2)["CLK"] = 2
    /\ Row(table_before, 2)["CLK"] = 7

-----------------------------------------------------------------------------
(* The extension columns of padding rows behind a halt                     *)

\* The padding rows extend has written, in a padded table whose last real
\* row holds instruction halt.
ExtendedPaddingRowsBehindHalt ==
    IF /\ PaddedRealTrace
       /\ Row(processor_table, processor_table_len - 1)["CI"] = opcode_b("Halt")
    THEN { r \in ExtendedRows : r >= processor_table_len }
    ELSE {}

\* The extension columns whose accumulators take in nothing on a padding row
\* behind a halt.
ColumnsAtRestInPaddingRows ==
    { "InputTableEvalArg", "OutputTableEvalArg", "InstructionLookupClientLogDerivative",
      "OpStackTablePermArg", "HashInputEvalArg", "HashDigestEvalArg", "SpongeEvalArg",
      "U32LookupClientLogDerivative" }

\* Each of the two running products of the padding row is that of the row
\* before it times the factor of the padding row.
PaddingRowAbsorbsRamAndJumpStackFactor(r) ==
    /\ Row(ext_table, r)["RamTablePermArg"]
        = XMul(Row(ext_table, r - 1)["RamTablePermArg"], RamFactor(Row(processor_table, r)))
    /\ Row(ext_table, r)["JumpStackTablePermArg"]
        = XMul(Row(ext_table, r - 1)["JumpStackTablePermArg"],
               JumpStackFactor(Row(processor_table, r)))

\* C36 as stated: in a table produced by pad_trace whose last real row holds
\* halt, extend writes into every padding row the value of the last real row
\* for eight of the extension columns, and also for
\* ClockJumpDifferenceLookupServerLogDerivative except at the padding row with
\* CLK = 1; RamTablePermArg and JumpStackTablePermArg absorb a factor.
C36_PaddingRowsRepeatTheLastRealRow ==
    \A r \in ExtendedPaddingRowsBehindHalt :
        /\ \A column \in ColumnsAtRestInPaddingRows :
            Row(ext_table, r)[column] = Row(ext_table, processor_table_len - 1)[column]
        /\ Row(processor_table, r)["CLK"] # 1 =>
            Row(ext_table, r)["ClockJumpDifferenceLookupServerLogDerivative"]
                = Row(ext_table, processor_table_len - 1)[
                        "ClockJumpDifferenceLookupServerLogDerivative"]
        /\ PaddingRowAbsorbsRamAndJumpStackFactor(r)

\* C36, amended: as stated for the eight columns and the two running
\* products; ClockJumpDifferenceLookupServerLogDerivative of a padding row is
\* that of the row before it, except at the padding row with CLK = 1, so
\* that the padding rows behind that row repeat its value, not the value of
\* the last real row.
C36_PaddingRowsRepeatTheRowBefore ==
    \A r \in ExtendedPaddingRowsBehindHalt :
        /\ \A column \in ColumnsAtRestInPaddingRows :
            Row(ext_table, r)[column] = Row(ext_table, processor_table_len - 1)[column]
        /\ Row(processor_table, r)["CLK"] # 1 =>
            Row(ext_table, r)["ClockJumpDifferenceLookupServerLogDerivative"]
                = Row(ext_table, r - 1)["ClockJumpDifferenceLookupServerLogDerivative"]
        /\ PaddingRowAbsorbsRamAndJumpStackFactor(r)

\* A table of one real row, a halt, and two padding rows is extended: the
\* padding row with CLK = 2 repeats the log derivative of the padding row
\* with CLK = 1, which is not that of the real row.
C36_Witness ==
    /\ pc = "extended"
    /\ processor_table_len = 1
    /\ Len(processor_table) = 3
    /\ 2 \in ExtendedPaddingRowsBehindHalt
    /\ Row(ext_table, 2)["ClockJumpDifferenceLookupServerLogDerivative"]
        = Row(ext_table, 1)["ClockJumpDifferenceLookupServerLogDerivative"]
    /\ Row(ext_table, 2)["ClockJumpDifferenceLookupServerLogDerivative"]
        # Row(ext_table, 0)["ClockJumpDifferenceLookupServerLogDerivative"]
    /\ Row(ext_table, 2)["RamTablePermArg"] # Row(ext_table, 1)["RamTablePermArg"]
    /\ Row(ext_table, 2)["OpStackTablePermArg"] = Row(ext_table, 0)["OpStackTablePermArg"]

-----------------------------------------------------------------------------
(* Instruction bits of no instruction                                      *)

\* C37: on every row pair whose current row holds binary instruction bits
\* that are the bit pattern of no instruction, every instruction deselector
\* is zero and every fused per-instruction transition polynomial is zero,
\* whatever the next row holds.
C37_BitsOfNoInstructionAreUnconstrained ==
    (args.op = "fusion_of_no_instruction" /\ result.done)
        => /\ \A k \in 0 .. 7 : args.current[IBColumn(k)] \in { 0, 1 }
           /\ \A instruction \in Instruction :
                /\ \E k \in 0 .. 7 : args.current[IBColumn(k)] # ib(instruction, k)
                /\ instruction_deselector_current_row(
                        instruction, args.current, args.next) = 0
           /\ Len(result.fused) = max_number_of_instruction_constraints
           /\ AllZero(result.fused)

\* The instruction bits are those of 3, the opcode of no instruction; the
\* next row differs from the current row in the instruction pointer, the
\* stack and the RAM value, no instruction's constraints hold on the pair,
\* and the fused polynomials are zero.
C37_Witness ==
    /\ args.op = "fusion_of_no_instruction"
    /\ result.done
    /\ args.current["CI"] = 3
    /\ args.current["IB0"] = 1
    /\ args.current["IB1"] = 1
    /\ args.next["IP"] = FAdd(args.current["IP"], 3)
    /\ args.next["RAMV"] # args.current["RAMV"]
    /\ args.next["OpStackPointer"] # args.current["OpStackPointer"]
    /\ ~AllZero(result.own)
    /\ AllZero(result.fused)

-----------------------------------------------------------------------------
(* The log derivative with the U32 table on rows of no u32 instruction     *)

\* The instructions with a summand in the constraint of the log derivative
\* with the U32 table.
U32Instructions ==
    { "Split", "Lt", "And", "Xor", "Pow", "Log2Floor", "DivMod", "PopCount" }

\* C38: on a row pair whose current row has binary instruction bits that
\* match none of split, lt, and, xor, pow, log_2_floor, div_mod, pop_count,
\* the constraint log_derivative_with_u32_table_updates_correctly is the
\* difference of the running sums of the two rows if IB2 = 0, so that it
\* forces the running sum to stay, and is zero whatever the running sums if
\* IB2 = 1; among the instructions, IB2 = 1 holds exactly for these eight.
C38_U32RunningSumStaysUnlessIb2IsSet ==
    /\ (/\ args.op \in { "fusion", "fusion_of_no_instruction" }
        /\ result.done
        /\ \A instruction \in U32Instructions :
                \E k \in 0 .. 7 : args.current[IBColumn(k)] # ib(instruction, k))
            => /\ args.current["IB2"] = 0 => result.u32 = XLift(args.shift)
               /\ args.current["IB2"] = 1 => result.u32 = XZero
    /\ \A instruction \in Instruction :
            ib(instruction, 2) = 1 <=> instruction \in U32Instructions

\* The instruction bits are those of 5, the opcode of no instruction, with
\* IB2 = 1: the running sum changes and the constraint is zero.
C38_Witness ==
    /\ args.op = "fusion_of_no_instruction"
    /\ result.done
    /\ args.current["CI"] = 5
    /\ args.current["IB2"] = 1
    /\ args.shift = 1
    /\ result.u32 = XZero

\* The current row holds push, with IB2 = 0: the running sum changes and the
\* constraint is not zero.
U32RunningSumOfPushMoved ==
    /\ args.op = "fusion"
    /\ result.done
    /\ args.instruction = "Push"
    /\ args.current["IB2"] = 0
    /\ args.shift = 1
    /\ result.u32 # XZero

-----------------------------------------------------------------------------
(* The items and the read position of a stream                             *)

\* C39: on a stream started with new(), before and after every call of
\* enqueue, dequeue and alter_fiat_shamir_state_with, items_index is at least
\* 0 and at most the number of items; items changes only by enqueue, which
\* appends the item; items_index never decreases, grows by exactly 1 on a
\* successful dequeue and stays on a failed one, on enqueue and on
\* alter_fiat_shamir_state_with.
C39_ItemsAreAppendedAndTheIndexOnlyAdvances ==
    [][(/\ transcript.started_with_new
        /\ transcript'.started_with_new
        /\ result'.op \in { "enqueue", "dequeue", "alter_fiat_shamir_state_with" })
        => /\ 0 <= proof_stream.items_index
           /\ proof_stream.items_index <= Len(proof_stream.items)
           /\ 0 <= proof_stream'.items_index
           /\ proof_stream'.items_index <= Len(proof_stream'.items)
           /\ proof_stream'.items_index >= proof_stream.items_index
           /\ Len(proof_stream'.items) >= Len(proof_stream.items)
           /\ SubSeq(proof_stream'.items, 1, Len(proof_stream.items)) = proof_stream.items
           /\ result'.op = "enqueue" =>
                /\ proof_stream'.items = Append(proof_stream.items, result'.item)
                /\ proof_stream'.items_index = proof_stream.items_index
           /\ result'.op = "dequeue" =>
                /\ proof_stream'.items = proof_stream.items
                /\ proof_stream'.items_index =
                        proof_stream.items_index + (IF result'.ok THEN 1 ELSE 0)
           /\ result'.op = "alter_fiat_shamir_state_with" =>
                /\ proof_stream'.items = proof_stream.items
                /\ proof_stream'.items_index = proof_stream.items_index]_vars

\* After four calls, the last of them the second enqueue and one of them a
\* successful dequeue, the stream holds both items and has read one.
C39_Witness ==
    /\ transcript.started_with_new
    /\ result.op = "enqueue"
    /\ transcript.calls = 4
    /\ Len(transcript.dequeued) = 1
    /\ Len(proof_stream.items) = 2
    /\ proof_stream.items = transcript.enqueued
    /\ proof_stream.items_index = 1
    /\ proof_stream.items[1] # proof_stream.items[2]

-----------------------------------------------------------------------------
(* xinvert and the product of xxmul                                        *)

\* The frame on which xxmul multiplies the top of the stack of the current
\* row of f with the top of the stack of its next row, and on which the
\* next row holds the product (1, 0, 0).
ProductFrameOfXxMul(f) ==
    [f EXCEPT !.cb = [f.cb EXCEPT !["ST3"] = f.nb["ST0"], !["ST4"] = f.nb["ST1"],
                                  !["ST5"] = f.nb["ST2"]],
              !.nb = [f.nb EXCEPT !["ST0"] = 1, !["ST1"] = 0, !["ST2"] = 0]]

\* C40: a row pair satisfies the three specific constraints of xinvert
\* exactly when the product formulas of xxmul, applied to (ST0, ST1, ST2) of
\* the current row and (ST0', ST1', ST2') of the next row, give (1, 0, 0),
\* coefficient by coefficient; that is, exactly when the product of the two
\* elements in the extension field is one.
C40_XInvertUsesTheProductOfXxMul ==
    (/\ args.op = "transition_constraints_for_instruction"
     /\ args.instruction = "XInvert"
     /\ result.done)
        => LET f == EvaluatedFrame
               of_xinv == SubSeq(instruction_xinv(f), 1, 3)
               of_xxmul == SubSeq(instruction_xxmul(ProductFrameOfXxMul(f)), 1, 3)
               element == << args.current["ST0"], args.current["ST1"], args.current["ST2"] >>
               next_element == << args.next["ST0"], args.next["ST1"], args.next["ST2"] >>
           IN /\ \A k \in 1 .. 3 : of_xinv[k] = XZero <=> of_xxmul[k] = XZero
              /\ AllZero(of_xinv) <=> AllZero(of_xxmul)
              /\ AllZero(of_xinv) <=> XMul(element, next_element) = XOne

\* xinvert has accepted a row pair with the element (2, 1, 2) and its
\* inverse, whose three coefficients are not 0.
C40_Witness ==
    /\ Accepted("XInvert")
    /\ << args.current["ST0"], args.current["ST1"], args.current["ST2"] >> = << 2, 1, 2 >>
    /\ \A column \in { "ST0", "ST1", "ST2" } : args.next[column] # 0
    /\ AllZero(SubSeq(instruction_xxmul(ProductFrameOfXxMul(EvaluatedFrame)), 1, 3))

=============================================================================
